---- MODULE Spec2Model ----
(***************************************************************************)
(* Model of the Coupang store service: the paginated, retrying REST client *)
(* (CoupangApiService.getProductListPaging), the browser workflows of      *)
(* CoupangCrawlerService and the message dispatcher                        *)
(* (CoupangMessageController, MessageQueueProcessor).                      *)
(*                                                                         *)
(* The variables come in groups: the pl_* / paging variables hold one      *)
(* invocation of getProductListPaging against a marketplace whose product  *)
(* list is a chain of pages; the job variables hold the jobs received on   *)
(* the 'coupang-queue' pattern and the browser sessions they use; the      *)
(* further groups hold one invocation each of a provider or service        *)
(* method.  Each specification moves one group and leaves the others at    *)
(* their idle value.                                                       *)
(***************************************************************************)
EXTENDS Integers, Sequences, FiniteSets, TLC

(***************************************************************************)
(* Bounds of the model.                                                    *)
(***************************************************************************)
MaxPages == 3        \* pages in the marketplace's cursor chain
MaxPerPage == 2      \* products on one page
MaxOrders == 2       \* orders in one invoiceUpload payload
MaxListPages == 2    \* non-empty pages of the inventory listing
MaxCodes == 2        \* product codes extracted from the non-conforming page
MaxProducts == 2     \* products in the list given to findMatchingProducts
MaxItems == 3        \* items in the worklist of a batch operation
MaxSeconds == 1      \* seconds the clock of the signature service runs for
MaxCalls == 2        \* signing calls recorded
MaxBoxes == 2        \* payment-complete checkboxes on the delivery page
MaxTablePages == 3   \* pages of the processing table
MaxTotalPages == 3   \* largest totalPages the price list reports
MaxRequests == 4     \* price-list pages requested before the model stops looking
MaxStored == 2       \* rows of the update-item table
MaxInputs == 2       \* invoices or products given to a service call
MaxRuns == 2         \* invocations of coupangProductsPriceControl in a row

VARIABLES
  \* ---- getProductListPaging (src/unnamed/part_007:37-127) ----
  chain,        \* the marketplace: chain[i] = number of products on page i
  endToken,     \* the nextToken the marketplace sends with the last page
  nextToken,    \* local nextToken
  pageCount,    \* local pageCount
  allProducts,  \* local allProducts
  retryCount,   \* local retryCount
  pl_pc,        \* "request" | "returned" | "thrown"
  pl_out,       \* what the caller of getProductListPaging receives
  reqLog,       \* history: every request attempt, in order
  \* ---- dispatcher and browser workflows ----
  mode,         \* which controller is deployed: "direct" | "bull"
  job,          \* job[j]: the handling of message j (see NoJob)
  queue,        \* the Bull queue 'coupang-message-queue': jobs added, in order
  \* ---- findMatchingProducts (deleteConfirmedCoupangProduct.provider.ts) ----
  productCodes, \* argument productCodes
  apiProducts,  \* argument apiProducts
  fm_out,       \* what findMatchingProducts returned
  \* ---- crawlCoupangDetailProducts, the page loop (part_003:175-199) ----
  listing,      \* the inventory listing: listing[i] = records on page i
  currentPage,  \* local currentPage
  isLastPage,   \* local isLastPage
  scrapedProducts, \* local scrapedProducts
  cd_pc,        \* "idle" | "goto" | "extract" | "save" | "finally" | "returned"
  cd_failed,    \* the catch block has run
  cd_log,       \* history: every page navigation and every save, in order
  \* ---- the batch operations of CoupangService (part_005) ----
  bt_op,        \* the operation running ("" when none)
  bt_items,     \* length of its worklist
  bt_pc,        \* "idle" | "loop" | "returned" | "thrown"
  successCount, \* local successCount
  failedCount,  \* local failedCount
  bt_log,       \* history: the marketplace call made for each item, in order
  \* ---- CoupangSignatureService.createHmacSignature ----
  signed,       \* number of createHmacSignature calls made so far
  sent,         \* history: for each request sent, the signing call whose
                \* { authorization, datetime } it carries
  \* ---- CoupangSignatureService (orderStatusUpdate.provider.ts:176-233) ----
  sg_keys,       \* secretKey, accessKey, vendorId read by the constructor
  sg_now,        \* the clock: [sec, ms], what new Date() returns
  sg_calls,       \* history: every signing call, its arguments and its result
  \* ---- OrderStatusUpdateProvider.updateOrderStatus and its caller ----
  oc_boxes,      \* checkboxes that page.$$ finds on the delivery page
  oc_pc,         \* "idle" | a step of the workflow | "caller" | "handler" | "done"
  oc_log,        \* history: every step executed, in order, with its outcome
  oc_ret,        \* what updateOrderStatus returned: "none" | "true" | "false"
  oc_released,   \* releaseContext calls made by orderStatusUpdate
  oc_reply,       \* what processMessage returns to the sender
  \* ---- browser invoiceUpload and InvoiceUploaderProvider.processOrder (part_003) ----
  up_rev,        \* which invoiceUpload is deployed: "perOrder" (105-139) | "once" (514-549)
  up_pages,      \* pages of the processing table
  up_selfLink,   \* the pager renders the number of the page shown as a link too
  up_rows,       \* up_rows[o]: the page that holds the row of order o, 0 when none
  up_shown,      \* the page of the table the browser shows
  up_order,      \* index of the order being processed
  up_currentPage,  \* local currentPage of processOrder
  up_result,     \* local result of processOrder (see NoResult)
  up_pc,         \* "idle" | "order" | "search" | "row" | "next" | "returned" | "thrown"
  up_results,     \* local results of invoiceUpload
  \* ---- CrawlCoupangPriceComparisonProvider.scrapePriceComparisonPages ----
  sp_currentPage,  \* local currentPage
  sp_pc,         \* "idle" | "goto" | "returned" | "thrown"
  sp_log,         \* history: the page of every request and the totalPages of its response
  \* ---- deleteConfirmedCoupangProduct, request by request (part_003:230-301) ----
  dc_pc,         \* "idle" | "login" | "navigate" | "extract" | "release" | "list" | "detail" | "stop" | "delete" | "returned"
  dc_items,      \* dc_items[p]: items in the detail of matched product p
  dc_log,        \* history: every releaseContext and every API request, in order
  dc_ret,         \* what the workflow returned: "none" | "undefined" | "object"
  \* ---- CoupangService item by item: uploadInvoices, coupangProductsPriceControl, deleteProducts (part_005) ----
  sv_op,         \* the operation called
  sv_store,      \* the update-item table: rows saved by saveUpdatedCoupangItems
  sv_jobId,      \* argument jobId
  sv_work,       \* the list worked on: invoices, products or local updatedItems
  sv_i,          \* index of the next list element
  sv_pc,         \* "idle" | "start" | "loop" | "returned" | "thrown"
  sv_run,        \* number of the invocation
  sv_log,        \* history: every signing call, API request and file write
  sv_success,    \* local successCount
  sv_failed,     \* local failedCount
  sv_results,    \* local results (uploadInvoices) or deletedProducts
  sv_timer,      \* the setImmediate callback: "none" | "pending" | "ran"
  sv_emits,       \* history: every message emitted to mail-queue
  \* ---- the signed list requests: getProductListPaging (part_007) and getCoupangOrderList (part_008) ----
  rq_env,        \* configService: COUPANG_VENDOR_ID and L_COUPANG_VENDOR_ID
  rq_fn,         \* the list method called
  rq_vendorId,   \* argument vendorId of getCoupangOrderList
  rq_token,      \* local nextToken
  rq_signed,     \* the { authorization, datetime } of the last signing call
  rq_pc,         \* "idle" | "sign" | "send" | "returned" | "thrown"
  rq_log         \* history: every request sent

plVars == <<chain, endToken, nextToken, pageCount, allProducts, retryCount,
            pl_pc, pl_out, reqLog>>

jobVars == <<mode, job, queue>>

fmVars == <<productCodes, apiProducts, fm_out>>

cdVars == <<listing, currentPage, isLastPage, scrapedProducts, cd_pc, cd_failed,
            cd_log>>

btVars == <<bt_op, bt_items, bt_pc, successCount, failedCount, bt_log>>

sigVars == <<signed, sent>>

hmVars == <<sg_keys, sg_now, sg_calls>>

ocVars == <<oc_boxes, oc_pc, oc_log, oc_ret, oc_released, oc_reply>>

upVars == <<up_rev, up_pages, up_selfLink, up_rows, up_shown, up_order, up_currentPage, up_result, up_pc, up_results>>

spVars == <<sp_currentPage, sp_pc, sp_log>>

dcVars == <<dc_pc, dc_items, dc_log, dc_ret>>

svVars == <<sv_op, sv_store, sv_jobId, sv_work, sv_i, sv_pc, sv_run, sv_log, sv_success, sv_failed, sv_results, sv_timer, sv_emits>>

rqVars == <<rq_env, rq_fn, rq_vendorId, rq_token, rq_signed, rq_pc, rq_log>>

vars == <<plVars, jobVars, fmVars, cdVars, btVars, sigVars,
          hmVars,
          ocVars,
          upVars,
          spVars,
          dcVars,
          svVars,
          rqVars>>

(***************************************************************************)
(* Messages received on 'coupang-queue'.  Two messages are enough for two  *)
(* handlers to overlap.                                                    *)
(***************************************************************************)
Jobs == {"m1", "m2"}

NoMessage == [text |-> "", pattern |-> ""]

\* no outcome delivered to the sender yet
NoReply == [kind |-> "none", status |-> "", data |-> "absent", message |-> NoMessage]

\* The handling of one message:
\*   pattern   message.pattern ("" before the message arrives)
\*   pc        position of the handler / the operation it awaits
\*   reply     what the sender of the message has received
\*   failed    the operation threw, or caught an error and gave up
\*   invoked   the service methods the handler has called
\*   acquired  loginToCoupangSite(contextId, pageId) succeeded
\*   releases  number of releaseContext(contextId) calls of the invocation
\*   ret       how the operation ended: "pending" | "undefined" | "value" |
\*             "string" | "object" | "throw"
\*   n         items left in the operation's loop (orders, listing pages)
\*   matched   findMatchingProducts has returned a matched set
\*   swallowed a failure for one item was logged and the batch went on
\*   results   invoiceUpload: the status of each result pushed, in order
\*   payload   message.payload: jobId, jobType and, for the price-comparison
\*             crawl, the winnerStatus in data
NoPayload == [jobId |-> "", jobType |-> "", data |-> ""]

NoJob ==
  [pattern |-> "", pc |-> "none", reply |-> NoReply, failed |-> FALSE,
   invoked |-> {}, acquired |-> FALSE, releases |-> 0, ret |-> "pending", n |-> 0,
   matched |-> FALSE, swallowed |-> FALSE, results |-> <<>>,
   payload |-> NoPayload]

IdleJobs ==
  /\ mode = "direct"
  /\ job = [j \in Jobs |-> NoJob]
  /\ queue = <<>>

\* findMatchingProducts has not been called
NotCalled == [called |-> FALSE, result |-> <<>>]

IdleMatching ==
  /\ productCodes = [isArray |-> TRUE, items |-> <<>>]
  /\ apiProducts = <<>>
  /\ fm_out = NotCalled

\* crawlCoupangDetailProducts is not running
IdleDetailCrawl ==
  /\ listing = <<>>
  /\ currentPage = 1
  /\ isLastPage = FALSE
  /\ scrapedProducts = <<>>
  /\ cd_pc = "idle"
  /\ cd_failed = FALSE
  /\ cd_log = <<>>

\* no batch operation is running
IdleBatch ==
  /\ bt_op = ""
  /\ bt_items = 0
  /\ bt_pc = "idle"
  /\ successCount = 0
  /\ failedCount = 0
  /\ bt_log = <<>>

\* the signature service has not been called
IdleHmac ==
  /\ sg_keys = [secretKey |-> "", accessKey |-> "", vendorId |-> ""]
  /\ sg_now = [sec |-> 0, ms |-> 0]
  /\ sg_calls = <<>>

\* no order confirmation is running
IdleConfirm ==
  /\ oc_boxes = 0
  /\ oc_pc = "idle"
  /\ oc_log = <<>>
  /\ oc_ret = "none"
  /\ oc_released = 0
  /\ oc_reply = NoReply

\* the result object of processOrder before the search: status and error as
\* in the source; scanned (the pages searched, in order) and row (how far
\* the handling of the matching row got) are history
NoResult == [status |-> "failed", error |-> "", scanned |-> <<>>, row |-> "none"]

\* no invoice upload is running
IdleUpload ==
  /\ up_rev = "perOrder"
  /\ up_pages = 1
  /\ up_selfLink = FALSE
  /\ up_rows = <<>>
  /\ up_shown = 1
  /\ up_order = 1
  /\ up_currentPage = 1
  /\ up_result = NoResult
  /\ up_pc = "idle"
  /\ up_results = <<>>

\* no price-comparison crawl is running
IdleCompare ==
  /\ sp_currentPage = 1
  /\ sp_pc = "idle"
  /\ sp_log = <<>>

\* deleteConfirmedCoupangProduct is not running
IdlePurge ==
  /\ dc_pc = "idle"
  /\ dc_items = <<>>
  /\ dc_log = <<>>
  /\ dc_ret = "none"

\* no service call is running
IdleService ==
  /\ sv_op = ""
  /\ sv_store = <<>>
  /\ sv_jobId = ""
  /\ sv_work = <<>>
  /\ sv_i = 1
  /\ sv_pc = "idle"
  /\ sv_run = 1
  /\ sv_log = <<>>
  /\ sv_success = 0
  /\ sv_failed = 0
  /\ sv_results = <<>>
  /\ sv_timer = "none"
  /\ sv_emits = <<>>

\* no list request is running
IdleRequests ==
  /\ rq_env = [COUPANG_VENDOR_ID |-> "", L_COUPANG_VENDOR_ID |-> ""]
  /\ rq_fn = ""
  /\ rq_vendorId = ""
  /\ rq_token = ""
  /\ rq_signed = <<>>
  /\ rq_pc = "idle"
  /\ rq_log = <<>>

\* nothing has been signed or sent
IdleSigning ==
  /\ signed = 0
  /\ sent = <<>>

(***************************************************************************)
(* getProductListPaging: the marketplace side.                             *)
(* A cursor token is a number: EmptyToken is the '' the client starts      *)
(* with, NoToken is an absent nextToken (undefined); the token that leads  *)
(* to page i+1 is i.                                                       *)
(***************************************************************************)
EmptyToken == 0
NoToken == -1
maxRetries == 3

\* !nextToken of the source: '' and undefined are falsy
Falsy(tok) == tok = EmptyToken \/ tok = NoToken

\* the page a request carrying tok asks for
PageOf(tok) == tok + 1

\* response.data.data of page p: its products, in order
PageData(p) == [k \in 1..chain[p] |-> <<p, k>>]

\* response.data.nextToken of page p
PageNextToken(p) == IF p < Len(chain) THEN p ELSE endToken

\* the history of attempts is a sequence of [token, ok] records; it is kept
\* up to the number of attempts a run of the loop can make
MaxLog == maxRetries * MaxPages
LogAppend(log, e) == IF Len(log) < MaxLog THEN Append(log, e) ELSE log

\* the message of the Error thrown at line 125 (Korean in the source:
\* "Coupang API request failed")
ApiRequestFailed == "Coupang API request failed"

Running == [kind |-> "none", data |-> <<>>, message |-> ""]

\* getProductListPaging is not running
IdlePaging ==
  /\ chain = <<>>
  /\ endToken = NoToken
  /\ nextToken = EmptyToken
  /\ pageCount = 0
  /\ allProducts = <<>>
  /\ retryCount = 0
  /\ pl_pc = "idle"
  /\ pl_out = Running
  /\ reqLog = <<>>

\* every group of variables but g is idle
Parked(g) ==
  /\ IF g = "paging" THEN TRUE ELSE IdlePaging
  /\ IF g = "jobs" THEN TRUE ELSE IdleJobs
  /\ IF g = "matching" THEN TRUE ELSE IdleMatching
  /\ IF g = "detail" THEN TRUE ELSE IdleDetailCrawl
  /\ IF g = "batch" THEN TRUE ELSE IdleBatch
  /\ IF g = "hmac" THEN TRUE ELSE IdleHmac
  /\ IF g = "confirm" THEN TRUE ELSE IdleConfirm
  /\ IF g = "upload" THEN TRUE ELSE IdleUpload
  /\ IF g = "compare" THEN TRUE ELSE IdleCompare
  /\ IF g = "purge" THEN TRUE ELSE IdlePurge
  /\ IF g = "service" THEN TRUE ELSE IdleService
  /\ IF g = "hmac" THEN TRUE ELSE IdleRequests
  /\ IdleSigning

\* every group of variables but g stays as it is
Keep(g) ==
  /\ IF g = "paging" THEN TRUE ELSE UNCHANGED plVars
  /\ IF g = "jobs" THEN TRUE ELSE UNCHANGED jobVars
  /\ IF g = "matching" THEN TRUE ELSE UNCHANGED fmVars
  /\ IF g = "detail" THEN TRUE ELSE UNCHANGED cdVars
  /\ IF g = "batch" THEN TRUE ELSE UNCHANGED btVars
  /\ IF g = "hmac" THEN TRUE ELSE UNCHANGED hmVars
  /\ IF g = "confirm" THEN TRUE ELSE UNCHANGED ocVars
  /\ IF g = "upload" THEN TRUE ELSE UNCHANGED upVars
  /\ IF g = "compare" THEN TRUE ELSE UNCHANGED spVars
  /\ IF g = "purge" THEN TRUE ELSE UNCHANGED dcVars
  /\ IF g = "service" THEN TRUE ELSE UNCHANGED svVars
  /\ IF g = "hmac" THEN TRUE ELSE UNCHANGED rqVars
  /\ IF g \in {"paging", "batch"} THEN TRUE ELSE UNCHANGED sigVars

\* Mutant: the first { authorization, datetime } is kept and sent again with
\* every later request.
SignedRequest_Cached ==
  /\ signed' = IF signed = 0 THEN 1 ELSE signed
  /\ sent' = Append(sent, 1)

\* const { authorization, datetime } = await createHmacSignature(...) followed
\* by the axios request that carries them in its headers (part_007:51-67,
\* part_005:222-236): the call is counted and its result goes out with the
\* request
SignedRequest ==
  /\ signed' = signed + 1
  /\ sent' = Append(sent, signed + 1)

InitPaging ==
  /\ chain \in UNION {[1..n -> 0..MaxPerPage] : n \in 1..MaxPages}
  /\ endToken \in {EmptyToken, NoToken}
  /\ nextToken = EmptyToken
  /\ pageCount = 0
  /\ allProducts = <<>>
  /\ retryCount = 0
  /\ pl_pc = "request"
  /\ pl_out = Running
  /\ reqLog = <<>>
  /\ Parked("paging")

\* Mutant: the data is pushed, then the attempt still ends in the catch.
PageRequestFails_AfterPush ==
  /\ pl_pc = "request"
  /\ retryCount < maxRetries
  /\ reqLog' = LogAppend(reqLog, [token |-> nextToken, ok |-> FALSE])
  /\ retryCount' = retryCount + 1
  /\ allProducts' = allProducts \o PageData(PageOf(nextToken))
  /\ IF retryCount + 1 >= maxRetries
       THEN /\ pl_pc' = "thrown"
            /\ pl_out' = [kind |-> "error", data |-> <<>>,
                          message |-> ApiRequestFailed]
       ELSE UNCHANGED <<pl_pc, pl_out>>
  /\ UNCHANGED <<chain, endToken, nextToken, pageCount>>
  /\ SignedRequest
  /\ Keep("paging")

\* Mutant: the outer catch hands back what was accumulated instead of throwing.
PageRequestFails_ReturnsPartial ==
  /\ pl_pc = "request"
  /\ retryCount < maxRetries
  /\ reqLog' = LogAppend(reqLog, [token |-> nextToken, ok |-> FALSE])
  /\ retryCount' = retryCount + 1
  /\ IF retryCount + 1 >= maxRetries
       THEN /\ pl_pc' = "returned"
            /\ pl_out' = [kind |-> "value", data |-> allProducts, message |-> ""]
       ELSE UNCHANGED <<pl_pc, pl_out>>
  /\ UNCHANGED <<chain, endToken, nextToken, pageCount, allProducts>>
  /\ SignedRequest
  /\ Keep("paging")

\* Mutant: the catch forgets retryCount++.
PageRequestFails_NoCount ==
  /\ pl_pc = "request"
  /\ retryCount < maxRetries
  /\ reqLog' = LogAppend(reqLog, [token |-> nextToken, ok |-> FALSE])
  /\ UNCHANGED <<chain, endToken, nextToken, pageCount, allProducts, retryCount,
                 pl_pc, pl_out>>
  /\ SignedRequest
  /\ Keep("paging")

\* One attempt of the inner loop that ends in its catch (lines 94-110): the
\* signing call or the GET threw.  The third failure in a row throws, the
\* outer catch (120-126) rethrows ApiRequestFailed and allProducts is lost.
PageRequestFails ==
  /\ pl_pc = "request"
  /\ retryCount < maxRetries
  /\ reqLog' = LogAppend(reqLog, [token |-> nextToken, ok |-> FALSE])
  /\ retryCount' = retryCount + 1
  /\ IF retryCount + 1 >= maxRetries
       THEN /\ pl_pc' = "thrown"
            /\ pl_out' = [kind |-> "error", data |-> <<>>,
                          message |-> ApiRequestFailed]
       ELSE UNCHANGED <<pl_pc, pl_out>>
  /\ UNCHANGED <<chain, endToken, nextToken, pageCount, allProducts>>
  /\ SignedRequest
  /\ Keep("paging")

\* Mutant: retryCount is declared outside the page loop and never reset.
PageRequestSucceeds_KeepsRetryCount ==
  /\ pl_pc = "request"
  /\ retryCount < maxRetries
  /\ LET p == PageOf(nextToken)
         tok == PageNextToken(p)
     IN /\ reqLog' = LogAppend(reqLog, [token |-> nextToken, ok |-> TRUE])
        /\ allProducts' = allProducts \o PageData(p)
        /\ nextToken' = tok
        /\ pageCount' = pageCount + 1
        /\ IF Falsy(tok)
             THEN /\ pl_pc' = "returned"
                  /\ pl_out' = [kind |-> "value", data |-> allProducts',
                                message |-> ""]
                  /\ UNCHANGED retryCount
             ELSE /\ UNCHANGED retryCount
                  /\ UNCHANGED <<pl_pc, pl_out>>
  /\ UNCHANGED <<chain, endToken>>
  /\ SignedRequest
  /\ Keep("paging")

\* One attempt of the inner loop that succeeds (lines 51-93): the page's data
\* is pushed, the response's nextToken stored, and either the function
\* returns allProducts (line 114, 119) or the next page starts with
\* retryCount = 0 (line 48).
PageRequestSucceeds ==
  /\ pl_pc = "request"
  /\ retryCount < maxRetries
  /\ LET p == PageOf(nextToken)
         tok == PageNextToken(p)
     IN /\ reqLog' = LogAppend(reqLog, [token |-> nextToken, ok |-> TRUE])
        /\ allProducts' = allProducts \o PageData(p)
        /\ nextToken' = tok
        /\ pageCount' = pageCount + 1
        /\ IF Falsy(tok)
             THEN /\ pl_pc' = "returned"
                  /\ pl_out' = [kind |-> "value", data |-> allProducts',
                                message |-> ""]
                  /\ UNCHANGED retryCount
             ELSE /\ retryCount' = 0
                  /\ UNCHANGED <<pl_pc, pl_out>>
  /\ UNCHANGED <<chain, endToken>>
  /\ SignedRequest
  /\ Keep("paging")

NextPaging ==
  \/ PageRequestSucceeds
  \/ PageRequestFails

SpecPaging == InitPaging /\ [][NextPaging]_vars

\* Every attempt is an awaited call that completes or fails: the loop keeps
\* taking steps while one is possible.
FairSpecPaging == SpecPaging /\ WF_vars(NextPaging)

(***************************************************************************)
(* getProductListPaging: what the history of attempts says.                *)
(***************************************************************************)
RECURSIVE ConcatFetched(_)
\* the data of the pages fetched successfully, in the order of the attempts
ConcatFetched(log) ==
  IF log = <<>> THEN <<>>
  ELSE LET e == log[Len(log)]
           front == ConcatFetched(SubSeq(log, 1, Len(log) - 1))
       IN IF e.ok THEN front \o PageData(PageOf(e.token)) ELSE front

RECURSIVE SumFetched(_)
\* the sum of the lengths of the pages fetched successfully
SumFetched(log) ==
  IF log = <<>> THEN 0
  ELSE LET e == log[Len(log)]
           front == SumFetched(SubSeq(log, 1, Len(log) - 1))
       IN IF e.ok THEN front + chain[PageOf(e.token)] ELSE front

RECURSIVE TrailingFailures(_)
\* the number of failed attempts at the end of the history
TrailingFailures(log) ==
  IF log = <<>> \/ log[Len(log)].ok THEN 0
  ELSE 1 + TrailingFailures(SubSeq(log, 1, Len(log) - 1))

\* the products of every page of the chain, in order
AllPages == ConcatFetched([p \in 1..Len(chain) |-> [token |-> p - 1, ok |-> TRUE]])

\* the token the attempt at position i has to carry: the one returned by the
\* last successful response before it, the empty one when there is none
ExpectedToken(log, i) ==
  LET before == {k \in 1..(i - 1) : log[k].ok}
  IN IF before = {} THEN EmptyToken
     ELSE LET last == CHOOSE k \in before : \A m \in before : m <= k
          IN PageNextToken(PageOf(log[last].token))

Stopped == pl_pc \in {"returned", "thrown"}

\* C7: getProductListPaging has two outcomes only: it returns the products of
\* all pages of the cursor chain, or it throws and its caller receives the
\* error and none of the products accumulated so far.
C7_AllOrFailed ==
  /\ pl_pc = "request" => pl_out = Running
  /\ pl_pc = "returned" => pl_out.kind = "value" /\ pl_out.data = AllPages
  /\ pl_pc = "thrown" =>
       /\ pl_out.kind = "error"
       /\ pl_out.data = <<>>
       /\ pl_out.message = ApiRequestFailed

\* C7 witness: the fetch failed after products of earlier pages were accumulated
C7_Witness == pl_pc = "thrown" /\ Len(allProducts) > 0

\* C8: the result is the in-order concatenation of the data of the pages
\* fetched successfully (its length the sum of their lengths), a token has at
\* most one successful fetch, every request carries the token of the previous
\* successful response, and no record is appended twice.
C8_OrderedConcatenation ==
  /\ allProducts = ConcatFetched(reqLog)
  /\ pl_pc = "returned" =>
       /\ pl_out.data = ConcatFetched(reqLog)
       /\ Len(pl_out.data) = SumFetched(reqLog)
  /\ \A i, k \in 1..Len(reqLog) :
       (i # k /\ reqLog[i].ok /\ reqLog[k].ok) => reqLog[i].token # reqLog[k].token
  /\ \A i \in 1..Len(reqLog) : reqLog[i].token = ExpectedToken(reqLog, i)
  /\ \A i, k \in 1..Len(allProducts) : i # k => allProducts[i] # allProducts[k]

\* C8 witness: a fetch of several pages returned with failed attempts and
\* retries in between
C8_Witness ==
  /\ pl_pc = "returned"
  /\ Len(chain) >= 2
  /\ Len(pl_out.data) >= 2
  /\ \E i \in 1..Len(reqLog) : i > 1 /\ ~reqLog[i].ok

\* C9: a page is requested at most maxRetries times, the fetch fails exactly
\* when one page failed maxRetries times in a row, and retryCount counts the
\* failures since the last success only.
C9_BoundedRetryPerPage ==
  /\ \A i \in 1..Len(reqLog) :
       Cardinality({k \in 1..Len(reqLog) : reqLog[k].token = reqLog[i].token})
         <= maxRetries
  /\ pl_pc = "thrown" <=> TrailingFailures(reqLog) >= maxRetries
  /\ pl_pc = "thrown" =>
       \A k \in (Len(reqLog) - maxRetries + 1)..Len(reqLog) :
         ~reqLog[k].ok /\ reqLog[k].token = reqLog[Len(reqLog)].token
  /\ pl_pc # "returned" => retryCount = TrailingFailures(reqLog)

\* C9 witness: the fetch returned although maxRetries attempts failed in all,
\* on different pages
C9_Witness ==
  /\ pl_pc = "returned"
  /\ Cardinality({k \in 1..Len(reqLog) : ~reqLog[k].ok}) >= maxRetries

\* the fetch is over exactly when the last response was successful and
\* carried no nextToken, or the last maxRetries attempts failed
StopsExactlyWhen ==
  /\ pl_pc = "returned" <=>
       /\ reqLog # <<>>
       /\ reqLog[Len(reqLog)].ok
       /\ Falsy(PageNextToken(PageOf(reqLog[Len(reqLog)].token)))
  /\ pl_pc = "thrown" <=> TrailingFailures(reqLog) >= maxRetries

\* C10: getProductListPaging terminates for every chain of cursor tokens and
\* every pattern of request failures, at the first successful response
\* without nextToken or at the third failure in a row of one page.
C10_Terminates == (<>Stopped) /\ []StopsExactlyWhen

\* C10 witness: the longest run has ended: every page but the last needed
\* maxRetries attempts
C10_Witness == Stopped /\ Len(reqLog) = MaxLog

(***************************************************************************)
(* CoupangCrawlerService: the browser workflows (src/unnamed/part_003).    *)
(* Every awaited call is one step that completes or throws; job[j].pc      *)
(* names the call the invocation is about to make.  A workflow ends by     *)
(* setting ret and moving to "returned", where its caller takes over.      *)
(***************************************************************************)
\* await this.playwrightService.releaseContext(contextId)
ReleaseContext(r) == [r EXCEPT !.releases = @ + 1]

\* the function returns v (or throws, v = "throw") to its caller
Return(r, v) == [r EXCEPT !.ret = v, !.pc = "returned"]

\* a catch block that logs the error and goes on to l
Caught(r, l) == [r EXCEPT !.failed = TRUE, !.pc = l]

Frame == UNCHANGED <<mode, queue>> /\ Keep("jobs")

\* orderStatusUpdate, lines 54-75: try { login; updateOrderStatus }
\* catch { log } finally { releaseContext }
orderStatusUpdate(j) ==
  /\ Frame
  /\ LET r == job[j] IN
     \/ /\ r.pc = "osu_login"
        /\ \E ok \in BOOLEAN :
             job' = [job EXCEPT ![j] =
                       IF ok THEN [r EXCEPT !.acquired = TRUE, !.pc = "osu_update"]
                             ELSE Caught(r, "osu_finally")]
     \/ /\ r.pc = "osu_update"
        /\ \E ok \in BOOLEAN :
             job' = [job EXCEPT ![j] =
                       IF ok THEN [r EXCEPT !.pc = "osu_finally"]
                             ELSE Caught(r, "osu_finally")]
     \/ /\ r.pc = "osu_finally"
        /\ job' = [job EXCEPT ![j] = Return(ReleaseContext(r), "undefined")]

\* Mutant: the finally block of invoiceUpload does not release the context.
invoiceUploadFinally_NoRelease(r) ==
  Return(r, IF r.failed THEN "throw" ELSE "value")

\* invoiceUpload, lines 136-138: finally { releaseContext }, then the pending
\* return of results or the pending exception
invoiceUploadFinally(r) ==
  Return(ReleaseContext(r), IF r.failed THEN "throw" ELSE "value")

\* invoiceUpload, lines 105-139: login outside the try; then for each order
\* navigateToDeliveryManagementPage and processOrder (which catches its own
\* errors and returns a result), finally { releaseContext }
invoiceUpload(j) ==
  /\ Frame
  /\ LET r == job[j] IN
     \/ /\ r.pc = "iu_login"
        /\ \E ok \in BOOLEAN :
             job' = [job EXCEPT ![j] =
                       IF ok THEN [r EXCEPT !.acquired = TRUE, !.pc = "iu_loop"]
                             ELSE Return([r EXCEPT !.failed = TRUE], "throw")]
     \/ /\ r.pc = "iu_loop"
        /\ job' = [job EXCEPT ![j] =
                     IF r.n = 0 THEN [r EXCEPT !.pc = "iu_finally"]
                                ELSE [r EXCEPT !.pc = "iu_navigate"]]
     \/ /\ r.pc = "iu_navigate"
        /\ \E ok \in BOOLEAN :
             job' = [job EXCEPT ![j] =
                       IF ok THEN [r EXCEPT !.pc = "iu_order"]
                             ELSE Caught(r, "iu_finally")]
     \/ /\ r.pc = "iu_order"
        /\ \E status \in {"success", "failed"} :
             job' = [job EXCEPT ![j] =
                       [r EXCEPT !.results = Append(@, status),
                                 !.swallowed = @ \/ status = "failed",
                                 !.n = @ - 1, !.pc = "iu_loop"]]
     \/ /\ r.pc = "iu_finally"
        /\ job' = [job EXCEPT ![j] = invoiceUploadFinally(r)]

\* crawlCoupangDetailProducts, lines 161-206: try { login; while (!isLastPage)
\* { scrapeProductPage; saveCoupangProductDetails; empty page ends the loop } }
\* catch { log } finally { releaseContext }.  r.n is the number of non-empty
\* pages still ahead.
crawlCoupangDetailProducts(j) ==
  /\ Frame
  /\ LET r == job[j] IN
     \/ /\ r.pc = "cd_login"
        /\ \E ok \in BOOLEAN :
             job' = [job EXCEPT ![j] =
                       IF ok THEN [r EXCEPT !.acquired = TRUE, !.pc = "cd_scrape"]
                             ELSE Caught(r, "cd_finally")]
     \/ /\ r.pc = "cd_scrape"
        /\ \E ok \in BOOLEAN :
             job' = [job EXCEPT ![j] =
                       IF ok THEN [r EXCEPT !.pc = "cd_save"]
                             ELSE Caught(r, "cd_finally")]
     \/ /\ r.pc = "cd_save"
        /\ \E ok \in BOOLEAN :
             job' = [job EXCEPT ![j] =
                       IF ~ok THEN Caught(r, "cd_finally")
                       ELSE IF r.n = 0 THEN [r EXCEPT !.pc = "cd_finally"]
                       ELSE [r EXCEPT !.n = @ - 1, !.pc = "cd_scrape"]]
     \/ /\ r.pc = "cd_finally"
        /\ job' = [job EXCEPT ![j] = Return(ReleaseContext(r), "undefined")]

\* Mutant: the outer catch of deleteConfirmedCoupangProduct does not release.
deleteConfirmedCatch_NoRelease(r) ==
  Return([r EXCEPT !.failed = TRUE], "undefined")

\* deleteConfirmedCoupangProduct, lines 296-300: catch { log; releaseContext;
\* return undefined }
deleteConfirmedCatch(r) ==
  Return(ReleaseContext([r EXCEPT !.failed = TRUE]), "undefined")

\* deleteConfirmedCoupangProduct, lines 230-301: try { login; navigate;
\* try { extract codes } catch { releaseContext; return undefined }
\* releaseContext; getProductListPaging; findMatchingProducts;
\* if matched { stopSaleBySellerProductId; deleteProducts }
\* return { matchedProducts } } catch { releaseContext; return undefined }.
\* stopSaleBySellerProductId (part_005:47-95) first awaits getProductDetail
\* for the matched products, outside any try, then putStopSellingItem, whose
\* failures are swallowed (part_007:222-227); deleteProducts catches the
\* failure of each deleteProduct (part_005:144-160).
deleteConfirmedCoupangProduct(j) ==
  /\ Frame
  /\ LET r == job[j] IN
     \/ /\ r.pc = "dc_login"
        /\ \E ok \in BOOLEAN :
             job' = [job EXCEPT ![j] =
                       IF ok THEN [r EXCEPT !.acquired = TRUE, !.pc = "dc_navigate"]
                             ELSE [r EXCEPT !.pc = "dc_catch"]]
     \/ /\ r.pc = "dc_navigate"
        /\ \E ok \in BOOLEAN :
             job' = [job EXCEPT ![j] =
                       IF ok THEN [r EXCEPT !.pc = "dc_extract"]
                             ELSE [r EXCEPT !.pc = "dc_catch"]]
     \/ /\ r.pc = "dc_extract"
        /\ \E ok \in BOOLEAN :
             job' = [job EXCEPT ![j] =
                       IF ok THEN [r EXCEPT !.pc = "dc_release"]
                             ELSE [r EXCEPT !.pc = "dc_norows"]]
     \/ /\ r.pc = "dc_norows"
        /\ job' = [job EXCEPT ![j] = Return(ReleaseContext(r), "undefined")]
     \/ /\ r.pc = "dc_release"
        /\ job' = [job EXCEPT ![j] = [ReleaseContext(r) EXCEPT !.pc = "dc_list"]]
     \/ /\ r.pc = "dc_list"
        /\ \E ok \in BOOLEAN, matched \in BOOLEAN :
             job' = [job EXCEPT ![j] =
                       IF ~ok THEN [r EXCEPT !.pc = "dc_catch"]
                       ELSE IF matched THEN [r EXCEPT !.matched = TRUE, !.pc = "dc_detail"]
                       ELSE Return([r EXCEPT !.matched = TRUE], "object")]
     \/ /\ r.pc = "dc_detail"
        /\ \E ok \in BOOLEAN :
             job' = [job EXCEPT ![j] =
                       IF ok THEN [r EXCEPT !.pc = "dc_stop"]
                             ELSE [r EXCEPT !.pc = "dc_catch"]]
     \/ /\ r.pc = "dc_stop"
        /\ \E ok \in BOOLEAN :
             job' = [job EXCEPT ![j] =
                       [r EXCEPT !.swallowed = @ \/ ~ok, !.pc = "dc_delete"]]
     \/ /\ r.pc = "dc_delete"
        /\ \E ok \in BOOLEAN :
             job' = [job EXCEPT ![j] =
                       Return([r EXCEPT !.swallowed = @ \/ ~ok], "object")]
     \/ /\ r.pc = "dc_catch"
        /\ job' = [job EXCEPT ![j] = deleteConfirmedCatch(r)]

\* crawlCoupangPriceComparison, lines 317-348: try { login;
\* scrapePriceComparisonPages } catch { log } finally { releaseContext }
crawlCoupangPriceComparison(j) ==
  /\ Frame
  /\ LET r == job[j] IN
     \/ /\ r.pc = "pc_login"
        /\ \E ok \in BOOLEAN :
             job' = [job EXCEPT ![j] =
                       IF ok THEN [r EXCEPT !.acquired = TRUE, !.pc = "pc_scrape"]
                             ELSE Caught(r, "pc_finally")]
     \/ /\ r.pc = "pc_scrape"
        /\ \E ok \in BOOLEAN :
             job' = [job EXCEPT ![j] =
                       IF ok THEN [r EXCEPT !.pc = "pc_finally"]
                             ELSE Caught(r, "pc_finally")]
     \/ /\ r.pc = "pc_finally"
        /\ job' = [job EXCEPT ![j] = Return(ReleaseContext(r), "undefined")]

\* newGetCoupangOrderList, lines 350-409: try { login; goto and wait for the
\* search response; return its text } catch { } finally { releaseContext }
newGetCoupangOrderList(j) ==
  /\ Frame
  /\ LET r == job[j] IN
     \/ /\ r.pc = "ngl_login"
        /\ \E ok \in BOOLEAN :
             job' = [job EXCEPT ![j] =
                       IF ok THEN [r EXCEPT !.acquired = TRUE, !.pc = "ngl_response"]
                             ELSE Caught(r, "ngl_finally")]
     \/ /\ r.pc = "ngl_response"
        /\ \E ok \in BOOLEAN :
             job' = [job EXCEPT ![j] =
                       IF ok THEN [r EXCEPT !.pc = "ngl_finally"]
                             ELSE Caught(r, "ngl_finally")]
     \/ /\ r.pc = "ngl_finally"
        /\ job' = [job EXCEPT ![j] =
                     Return(ReleaseContext(r), IF r.failed THEN "undefined" ELSE "value")]

(***************************************************************************)
(* The dispatchers.  mode = "direct": CoupangMessageController.processMessage*)
(* (src/src/api/coupang.message.controller.ts:150-264) calls the operation *)
(* itself.  mode = "bull": handleMailMessage (src/unnamed/part_001:18-53)  *)
(* adds the browser patterns to the Bull queue, where                      *)
(* MessageQueueProcessor.processMessage (src/unnamed/part_002:13-55) runs  *)
(* them one at a time, and calls the other operations itself.              *)
(***************************************************************************)
\* case labels of processMessage, controller.ts:156-254
DirectPatterns ==
  {"orderStatusUpdate", "uploadInvoices", "crawlCoupangPriceComparison",
   "deleteConfirmedCoupangProduct", "getProductListPaging", "getProductDetail",
   "newGetCoupangOrderList", "putStopSellingItem", "stopSaleBySellerProductId",
   "deleteBySellerProductId", "coupangProductsPriceControl",
   "shippingCostManagement", "clearCoupangComparison", "saveUpdateCoupangItems",
   "getComparisonCount", "putOrderStatus"}

\* queuePatterns, part_001:25-30
QueuePatterns ==
  {"orderStatusUpdate", "invoiceUpload", "crawlCoupangDetailProducts",
   "deleteConfirmedCoupangProduct"}

\* the patterns whose job handleMailMessage awaits with job.finished(),
\* part_001:37-41
AwaitedPatterns ==
  {"invoiceUpload", "crawlCoupangDetailProducts", "deleteConfirmedCoupangProduct"}

\* case labels of the controller's own switch, part_001:58-121
LegacyPatterns ==
  {"getProductListPaging", "getProductDetail", "getCoupangOrderList",
   "putStopSellingItem", "stopSaleForMatchedProducts", "deleteProducts",
   "coupangProductsPriceControl", "shippingCostManagement", "clearCoupangProducts"}

\* the patterns a sender may put in a message: every pattern either
\* controller knows, and one that none knows
Patterns == DirectPatterns \cup QueuePatterns \cup LegacyPatterns \cup {"noSuchPattern"}

Recognized(m) ==
  IF m = "direct" THEN DirectPatterns ELSE QueuePatterns \cup LegacyPatterns

\* the patterns served by a browser workflow of CoupangCrawlerService
BrowserPatterns ==
  {"orderStatusUpdate", "invoiceUpload", "crawlCoupangDetailProducts",
   "deleteConfirmedCoupangProduct", "crawlCoupangPriceComparison",
   "newGetCoupangOrderList"}

\* job ids a sender may put in payload.jobId
JobIds == {"id1", "id2"}

\* payload.jobType values
JobTypes == {"ORDER", "SOLDOUT"}

\* payload.data of crawlCoupangPriceComparison, part_003:320
WinnerStatuses == {"LOSE_NOT_SUPPRESSED", "WIN_NOT_SUPPRESSED"}

\* configService.get('STORE'), part_003:58: one store per deployment
Store == "STORE"

\* the payloads a message of pattern p may carry; jobType is enumerated
\* where a context id is built from it, and is one fixed type elsewhere
Payloads(p) ==
  {[jobId |-> i, jobType |-> t, data |-> d] :
     i \in JobIds,
     t \in IF p = "newGetCoupangOrderList" THEN JobTypes ELSE {"ORDER"},
     d \in IF p = "crawlCoupangPriceComparison" THEN WinnerStatuses ELSE {""}}

\* const contextId = `context-...`: the template literal of each workflow
\* (part_003:59, 110, 166, 236, 326, 351), as the sequence of its parts
\* between the hyphens; newGetCoupangOrderList interpolates the job type
\* where the others have the store, and ends with a stray brace
contextId(p, payload) ==
  CASE p = "crawlCoupangPriceComparison" ->
         <<"context", Store, payload.jobId, payload.data>>
    [] p = "newGetCoupangOrderList" ->
         <<"context", payload.jobType, payload.jobId, "}">>
    [] OTHER -> <<"context", Store, payload.jobId>>

\* the first awaited call of each browser workflow
FirstStep(p) ==
  CASE p = "orderStatusUpdate" -> "osu_login"
    [] p = "invoiceUpload" -> "iu_login"
    [] p = "crawlCoupangDetailProducts" -> "cd_login"
    [] p = "deleteConfirmedCoupangProduct" -> "dc_login"
    [] p = "crawlCoupangPriceComparison" -> "pc_login"
    [] p = "newGetCoupangOrderList" -> "ngl_login"

\* the length of the list the workflow loops over: payload.updatedOrders for
\* invoiceUpload, the non-empty listing pages for crawlCoupangDetailProducts
LoopSizes(p) ==
  CASE p = "invoiceUpload" -> 0..MaxOrders
    [] p = "crawlCoupangDetailProducts" -> 0..MaxListPages
    [] OTHER -> {0}

\* the service method each case calls
Operation(p) ==
  CASE p = "deleteBySellerProductId" -> "deleteProducts"
    [] OTHER -> p

\* operations from which an exception reaches the caller: the paginated and
\* detail reads rethrow (part_007:125, 180; part_008:264), the stop-sale
\* batches call getProductDetail outside any try (part_005:58-74), the
\* persistence calls are awaited without a try (part_005:195-208, 339-368)
Throwing ==
  {"getProductListPaging", "getProductDetail", "getCoupangOrderList",
   "stopSaleBySellerProductId", "stopSaleForMatchedProducts",
   "coupangProductsPriceControl", "clearCoupangComparison",
   "clearCoupangProducts", "saveUpdateCoupangItems", "getComparisonCount"}

\* single requests whose failure is logged and swallowed (part_007:222-227,
\* 327-329)
Swallowing == {"putStopSellingItem", "putOrderStatus"}

\* operations that resolve to a value; the others resolve to undefined
Valued ==
  {"uploadInvoices", "getProductListPaging", "getProductDetail",
   "getCoupangOrderList", "stopSaleBySellerProductId",
   "stopSaleForMatchedProducts", "shippingCostManagement", "getComparisonCount"}

\* the ways the non-browser operation of pattern p can end
Outcomes(p) ==
  {[ret |-> IF p \in Valued THEN "value" ELSE "undefined", failed |-> FALSE]}
  \cup (IF p \in Throwing THEN {[ret |-> "throw", failed |-> TRUE]} ELSE {})
  \cup (IF p \in Swallowing THEN {[ret |-> "undefined", failed |-> TRUE]} ELSE {})

\* ---- what the sender receives ----
Undefined == [kind |-> "undefined", status |-> "", data |-> "absent", message |-> NoMessage]
BareString == [kind |-> "string", status |-> "", data |-> "absent", message |-> NoMessage]
Rejected == [kind |-> "exception", status |-> "", data |-> "absent", message |-> NoMessage]
Success(d) == [kind |-> "object", status |-> "success", data |-> d, message |-> NoMessage]
ErrorReply(text, p) ==
  [kind |-> "object", status |-> "error", data |-> "absent",
   message |-> [text |-> text, pattern |-> p]]

\* the data field built from what the operation resolved to
DataOf(ret) == IF ret = "undefined" THEN "undefined" ELSE "value"

\* Mutant: the default case reports without saying which pattern.
UnknownPattern_Anonymous(p) == ErrorReply("unknown pattern type", "")

\* default case, controller.ts:258-262 and part_001:125-127: the message is
\* the fixed text (Korean in the source: "unknown pattern type") followed by
\* the pattern
UnknownPattern(p) == ErrorReply("unknown pattern type", p)

\* the return statement of each case of processMessage, controller.ts:156-262;
\* an exception thrown by the operation leaves the handler uncaught
processMessageResult(p, ret) ==
  IF ret = "throw" THEN Rejected
  ELSE CASE p \in {"orderStatusUpdate", "putStopSellingItem",
                   "coupangProductsPriceControl", "putOrderStatus"} -> Undefined
         [] p = "crawlCoupangPriceComparison" -> BareString
         [] p \in {"stopSaleBySellerProductId", "deleteBySellerProductId",
                   "clearCoupangComparison", "saveUpdateCoupangItems"} -> Success("absent")
         [] p \in {"uploadInvoices", "deleteConfirmedCoupangProduct",
                   "getProductListPaging", "getProductDetail",
                   "newGetCoupangOrderList", "shippingCostManagement",
                   "getComparisonCount"} -> Success(DataOf(ret))
         [] OTHER -> UnknownPattern(p)

\* the return statement of each case of the controller's switch,
\* part_001:58-128; an exception is caught by handleMailMessage, part_001:49-52
legacyResult(p, ret) ==
  IF ret = "throw" THEN ErrorReply("error.message", "")
  ELSE CASE p = "putStopSellingItem" -> Undefined
         [] p \in {"stopSaleForMatchedProducts", "deleteProducts",
                   "coupangProductsPriceControl", "clearCoupangProducts"} -> Success("absent")
         [] p \in {"getProductListPaging", "getProductDetail", "getCoupangOrderList",
                   "shippingCostManagement"} -> Success(DataOf(ret))
         [] OTHER -> UnknownPattern(p)

\* what the Bull job resolves to, part_002:19-54: the case's return value, or
\* undefined after the catch
queueResult(p, ret) ==
  IF ret = "throw" THEN "undefined"
  ELSE CASE p = "invoiceUpload" -> ret
         [] p = "crawlCoupangDetailProducts" -> "string"
         [] p = "deleteConfirmedCoupangProduct" -> "object"
         [] OTHER -> "undefined"

\* the handler has called the operation of pattern p: a browser workflow
\* starts at its first call, any other operation is one awaited call
Invoke(r, p, n) ==
  [r EXCEPT !.invoked = @ \cup {Operation(p)},
            !.n = n,
            !.pc = IF p \in BrowserPatterns THEN FirstStep(p) ELSE "api"]

\* the handler returns (or rejects with) rep to the sender
Deliver(r, rep) == [r EXCEPT !.reply = rep, !.pc = "done"]

\* A message arrives on 'coupang-queue' and the @MessagePattern handler is
\* called with it (controller.ts:150-153, part_001:18-22).  The RMQ transport
\* is connected without prefetchCount or noAck (part_009:296-303), so a
\* message is handed to the handler when it arrives, whether or not an
\* earlier handler has returned.
Receive(j) ==
  /\ job[j].pc = "none"
  /\ \E p \in Patterns :
       \E payload \in Payloads(p) :
         job' = [job EXCEPT ![j] =
                   [NoJob EXCEPT !.pattern = p, !.payload = payload, !.pc = "handler"]]
  /\ Frame

\* CoupangMessageController.processMessage, controller.ts:150-264: the switch
\* calls the operation of the pattern and awaits it; then the case's return
\* statement (or the uncaught exception) is the outcome.
processMessage(j) ==
  /\ mode = "direct"
  /\ Frame
  /\ LET r == job[j] IN
     \/ /\ r.pc = "handler"
        /\ IF r.pattern \in DirectPatterns
             THEN \E n \in LoopSizes(r.pattern) :
                    job' = [job EXCEPT ![j] = Invoke(r, r.pattern, n)]
             ELSE job' = [job EXCEPT ![j] = Deliver(r, UnknownPattern(r.pattern))]
     \/ /\ r.pc = "returned"
        /\ job' = [job EXCEPT ![j] = Deliver(r, processMessageResult(r.pattern, r.ret))]

\* CoupangMessageController.handleMailMessage, part_001:18-53, with the
\* switch it delegates to (55-129).  A queue pattern is added to the Bull
\* queue; only the AwaitedPatterns wait for job.finished(), which is answered
\* with {status: 'success', data: result}; orderStatusUpdate returns at once.
handleMailMessage(j) ==
  /\ mode = "bull"
  /\ UNCHANGED mode /\ Keep("jobs")
  /\ LET r == job[j] IN
     \/ /\ r.pc = "handler"
        /\ r.pattern \in QueuePatterns
        /\ \E added \in BOOLEAN :
             IF added
               THEN /\ queue' = Append(queue, j)
                    /\ job' = [job EXCEPT ![j] =
                                 [r EXCEPT !.pc = "queued",
                                           !.reply = IF r.pattern \in AwaitedPatterns
                                                       THEN NoReply ELSE Undefined]]
               ELSE /\ UNCHANGED queue
                    /\ job' = [job EXCEPT ![j] =
                                 Deliver([r EXCEPT !.failed = TRUE],
                                         ErrorReply("error.message", ""))]
     \/ /\ r.pc = "handler"
        /\ r.pattern \notin QueuePatterns
        /\ UNCHANGED queue
        /\ IF r.pattern \in LegacyPatterns
             THEN job' = [job EXCEPT ![j] = Invoke(r, r.pattern, 0)]
             ELSE job' = [job EXCEPT ![j] = Deliver(r, UnknownPattern(r.pattern))]
     \/ /\ r.pc = "returned"
        /\ r.pattern \notin QueuePatterns
        /\ UNCHANGED queue
        /\ job' = [job EXCEPT ![j] = Deliver(r, legacyResult(r.pattern, r.ret))]
     \/ /\ r.pc = "finished"
        /\ UNCHANGED queue
        /\ job' = [job EXCEPT ![j] = Deliver(r, Success(DataOf(r.ret)))]

\* MessageQueueProcessor.processMessage, part_002:13-55: the single worker of
\* 'coupang-message-queue' takes the oldest job, runs its workflow and
\* resolves the job with the case's return value; its catch logs and
\* resolves with undefined.
queueProcessMessage(j) ==
  /\ mode = "bull"
  /\ UNCHANGED mode /\ Keep("jobs")
  /\ LET r == job[j] IN
     \/ /\ r.pc = "queued"
        /\ queue # <<>> /\ Head(queue) = j
        /\ UNCHANGED queue
        /\ \E n \in LoopSizes(r.pattern) :
             job' = [job EXCEPT ![j] = Invoke(r, r.pattern, n)]
     \/ /\ r.pc = "returned"
        /\ r.pattern \in QueuePatterns
        /\ queue' = Tail(queue)
        /\ job' = [job EXCEPT ![j] =
                     [r EXCEPT !.ret = queueResult(r.pattern, r.ret),
                               !.pc = IF r.pattern \in AwaitedPatterns
                                        THEN "finished" ELSE "done"]]

\* a non-browser operation (CoupangApiService, CoupangService) runs to its
\* end: it resolves, throws, or swallows the failure of its request
RunOperation(j) ==
  /\ job[j].pc = "api"
  /\ \E o \in Outcomes(job[j].pattern) :
       job' = [job EXCEPT ![j] = Return([job[j] EXCEPT !.failed = o.failed], o.ret)]
  /\ Frame

Init ==
  /\ mode \in {"direct", "bull"}
  /\ job = [j \in Jobs |-> NoJob]
  /\ queue = <<>>
  /\ Parked("jobs")

Next ==
  \E j \in Jobs :
    \/ Receive(j)
    \/ processMessage(j)
    \/ handleMailMessage(j)
    \/ queueProcessMessage(j)
    \/ RunOperation(j)
    \/ orderStatusUpdate(j)
    \/ invoiceUpload(j)
    \/ crawlCoupangDetailProducts(j)
    \/ deleteConfirmedCoupangProduct(j)
    \/ crawlCoupangPriceComparison(j)
    \/ newGetCoupangOrderList(j)

Spec == Init /\ [][Next]_vars

(***************************************************************************)
(* Properties of the workflows and the dispatchers.                        *)
(***************************************************************************)
\* the invocation of job j is over: its function has returned or thrown
Ended(j) == job[j].ret # "pending"

\* job j was handed to the handler and its work is not over
InFlight(j) == job[j].pc \notin {"none", "done"}

\* the handler's answer for job j has reached the sender
Answered(j) == job[j].pc = "done"

\* C1: in every browser workflow releaseContext is called at most once per
\* invocation, whichever single step fails, the steps of
\* deleteConfirmedCoupangProduct after its browser part included.
C1_ReleasedAtMostOnce == \A j \in Jobs : job[j].releases <= 1

\* C12: once deleteConfirmedCoupangProduct has computed the matched set, it
\* returns that set whatever happens in the stop-sale and delete phase.
C12_MatchedSetReturned ==
  \A j \in Jobs :
    (job[j].matched /\ job[j].pc = "returned") => job[j].ret = "object"

\* C13: once the session is acquired, invoiceUpload returns one result per
\* input order; a failure while handling one order (navigation to the
\* delivery page included) never keeps the remaining orders from being
\* processed and reported.
C13_OneResultPerOrder ==
  \A j \in Jobs :
    (job[j].pattern = "invoiceUpload" /\ job[j].acquired /\ job[j].pc = "returned")
      => (job[j].ret = "value" /\ job[j].n = 0)

\* C17: when loginToCoupangSite fails, the browser workflow that called it
\* ends with an error raised to its caller; it does not complete normally.
C17_LoginFailureRaised ==
  \A j \in Jobs :
    (job[j].pattern \in BrowserPatterns /\ job[j].pc = "returned" /\ ~job[j].acquired)
      => job[j].ret = "throw"

\* job j holds a browser context: it has logged in and not yet released
Holding(j) ==
  /\ job[j].pattern \in BrowserPatterns
  /\ job[j].acquired
  /\ job[j].releases = 0
  /\ job[j].pc # "returned"

\* C18: no browser context is held by two jobs in flight at once, so that
\* the releaseContext of one job never tears down the context of another;
\* this includes two jobs of different patterns with the same job id.
C18_ContextNotShared ==
  \A j, k \in Jobs :
    (j # k /\ Holding(j) /\ Holding(k))
      => contextId(job[j].pattern, job[j].payload)
           # contextId(job[k].pattern, job[k].payload)

\* C38: releaseContext is called for a context id only by an invocation
\* that acquired it: a workflow whose loginToCoupangSite failed does not
\* call releaseContext.
C38_ReleaseOnlyAfterLogin ==
  \A j \in Jobs :
    job[j].releases > 0 => job[j].acquired

\* the session keys the specification allows for a job id: store and job
\* id, with or without a variant tag
SessionKeys(id) ==
  {<<"context", Store, id>>}
    \cup {<<"context", Store, id, tag>> : tag \in WinnerStatuses}

\* job j has entered a browser workflow
InWorkflow(j) ==
  job[j].pattern \in BrowserPatterns /\ job[j].invoked # {}

\* C19: every workflow builds its context id from the store identifier and
\* the job id (plus the variant tag where one exists); different job ids
\* give different context ids, and so do the two price-comparison crawls
\* of one job.
C19_ContextIdFromStoreAndJob ==
  /\ \A j \in Jobs :
       InWorkflow(j) =>
         contextId(job[j].pattern, job[j].payload) \in SessionKeys(job[j].payload.jobId)
  /\ \A j, k \in Jobs :
       (InWorkflow(j) /\ InWorkflow(k)
          /\ (\/ job[j].payload.jobId # job[k].payload.jobId
              \/ /\ job[j].pattern = "crawlCoupangPriceComparison"
                 /\ job[k].pattern = "crawlCoupangPriceComparison"
                 /\ job[j].payload.data # job[k].payload.data))
         => contextId(job[j].pattern, job[j].payload)
              # contextId(job[k].pattern, job[k].payload)

\* C2: an invocation of a browser workflow whose loginToCoupangSite succeeded
\* has called releaseContext by the time it returns or throws.
C2_AcquiredIsReleased ==
  \A j \in Jobs : (job[j].acquired /\ Ended(j)) => job[j].releases >= 1

\* C2 witness: invoiceUpload logged in, a later step threw, and the exception
\* left the function with the context released
C2_Witness ==
  \E j \in Jobs :
    /\ job[j].pattern = "invoiceUpload"
    /\ job[j].acquired
    /\ job[j].ret = "throw"
    /\ job[j].releases = 1

\* C3: at any time at most one job received on the coupang queue is in
\* flight; a job that arrives meanwhile does not start before the earlier one
\* has finished.
C3_OneJobInFlight == Cardinality({j \in Jobs : InFlight(j)}) <= 1

\* C4: when the operation of a recognized pattern fails, the sender receives
\* {status: 'error', message}, never a success and never nothing.
C4_FailureIsReported ==
  \A j \in Jobs :
    (Answered(j) /\ job[j].failed /\ job[j].pattern \in Recognized(mode))
      => (job[j].reply.kind = "object" /\ job[j].reply.status = "error")

\* C5: a recognized pattern whose operation completes without error is
\* answered with an object of status 'success', never with undefined or a
\* bare string.
C5_SuccessIsAnObject ==
  \A j \in Jobs :
    (Answered(j) /\ ~job[j].failed /\ job[j].pattern \in Recognized(mode))
      => (job[j].reply.kind = "object" /\ job[j].reply.status = "success")

\* C6: for a pattern outside the recognized set the dispatcher invokes no
\* operation and answers {status: 'error', message} with the pattern in the
\* message.
C6_UnknownPatternRejected ==
  \A j \in Jobs :
    (job[j].pc # "none" /\ job[j].pattern \notin Recognized(mode))
      => /\ job[j].invoked = {}
         /\ job[j].releases = 0
         /\ job[j].pc \in {"handler", "done"}
         /\ Answered(j) =>
              /\ job[j].reply.kind = "object"
              /\ job[j].reply.status = "error"
              /\ job[j].reply.message.pattern = job[j].pattern

\* C6 witness: both dispatchers have answered a pattern that is not theirs,
\* one of them a pattern the other dispatcher serves
C6_Witness ==
  /\ \A j \in Jobs : Answered(j) /\ job[j].pattern \notin Recognized(mode)
  /\ \E j \in Jobs : job[j].pattern = "noSuchPattern"
  /\ \E j \in Jobs : job[j].pattern \in DirectPatterns \cup QueuePatterns

(***************************************************************************)
(* DeleteConfirmedCoupangProductProvider.findMatchingProducts              *)
(* (src/src/core/crawler/provider/deleteConfirmedCoupangProduct.provider.ts*)
(* lines 87-96).  A string is a sequence of characters; "a" and "A" are    *)
(* the two cases of one letter.  A value that is not a string carries      *)
(* isString = FALSE.                                                       *)
(***************************************************************************)
\* listing names an API product may carry
Names ==
  {<<>>, <<"a">>, <<"A", "b">>, <<"b", "a">>, <<"b", "A">>, <<"a", "b", "a">>}

\* first words of the titles on the non-conforming page
CodeTexts == {<<>>, <<"a">>, <<"A">>, <<"b", "a">>}

\* product.sellerProductName: a string, or something else (undefined, number)
ProductValues ==
  {[nameIsString |-> TRUE, sellerProductName |-> n] : n \in Names}
    \cup {[nameIsString |-> FALSE, sellerProductName |-> <<>>]}

\* an element of productCodes: a string, or something else
CodeValues ==
  {[isString |-> TRUE, text |-> c] : c \in CodeTexts}
    \cup {[isString |-> FALSE, text |-> <<>>]}

SeqsUpTo(S, n) == UNION {[1..k -> S] : k \in 0..n}

Lower(s) == [k \in 1..Len(s) |-> IF s[k] = "A" THEN "a" ELSE s[k]]

\* Mutant: the comparison ignores the case of the letters.
Includes_IgnoreCase(s, c) ==
  \E i \in 0..(Len(s) - Len(c)) : Lower(SubSeq(s, i + 1, i + Len(c))) = Lower(c)

\* String.prototype.includes, line 94: c occurs in s at some position
Includes(s, c) ==
  \E i \in 0..(Len(s) - Len(c)) : SubSeq(s, i + 1, i + Len(c)) = c

\* productCodes.some(...), lines 93-95
SomeCode(codes, name) ==
  \E k \in 1..Len(codes) : codes[k].isString /\ Includes(name, codes[k].text)

\* the predicate given to filter, lines 89-95
Keeps(codes, product) ==
  /\ codes.isArray
  /\ product.nameIsString
  /\ SomeCode(codes.items, product.sellerProductName)

\* Array.prototype.filter: the kept elements, in their order
RECURSIVE Filter(_, _)
Filter(codes, products) ==
  IF products = <<>> THEN <<>>
  ELSE (IF Keeps(codes, Head(products)) THEN <<Head(products)>> ELSE <<>>)
         \o Filter(codes, Tail(products))

InitMatching ==
  /\ productCodes \in
       {[isArray |-> TRUE, items |-> c] : c \in SeqsUpTo(CodeValues, MaxCodes)}
         \cup {[isArray |-> FALSE, items |-> <<>>]}
  /\ apiProducts \in SeqsUpTo(ProductValues, MaxProducts)
  /\ fm_out = NotCalled
  /\ Parked("matching")

\* findMatchingProducts(productCodes, apiProducts), lines 87-96
findMatchingProducts ==
  /\ ~fm_out.called
  /\ fm_out' = [called |-> TRUE, result |-> Filter(productCodes, apiProducts)]
  /\ UNCHANGED <<productCodes, apiProducts>>
  /\ Keep("matching")

NextMatching == findMatchingProducts

SpecMatching == InitMatching /\ [][NextMatching]_vars

\* c is a run of consecutive characters of s
IsSubstring(c, s) ==
  \E i \in 0..Len(s), j \in 0..Len(s) :
    i <= j /\ c = [k \in 1..(j - i) |-> s[i + k]]

\* the product's listing name is a string that contains an extracted code
Matched(product) ==
  /\ product.nameIsString
  /\ \E k \in 1..Len(productCodes.items) :
       /\ productCodes.items[k].isString
       /\ IsSubstring(productCodes.items[k].text, product.sellerProductName)

\* the positions of the matched products in apiProducts
MatchedAt == {i \in 1..Len(apiProducts) : Matched(apiProducts[i])}

\* C11: findMatchingProducts returns exactly the API products whose
\* sellerProductName is a string containing at least one extracted code as a
\* case-sensitive substring, in their original order.
C11_ExactlyTheMatches ==
  fm_out.called =>
    \E f \in [1..Len(fm_out.result) -> 1..Len(apiProducts)] :
      /\ \A k \in 1..Len(fm_out.result) : fm_out.result[k] = apiProducts[f[k]]
      /\ \A k, l \in 1..Len(fm_out.result) : k < l => f[k] < f[l]
      /\ {f[k] : k \in 1..Len(fm_out.result)} = MatchedAt

\* C11 witness: one product was kept and another, whose name holds the code
\* only in the other case, was left out
C11_Witness ==
  /\ fm_out.called
  /\ Len(fm_out.result) = 1
  /\ \E i \in 1..Len(apiProducts) :
       /\ i \notin MatchedAt
       /\ apiProducts[i].nameIsString
       /\ \E k \in 1..Len(productCodes.items) :
            /\ productCodes.items[k].isString
            /\ productCodes.items[k].text # <<>>
            /\ IsSubstring(Lower(productCodes.items[k].text),
                           Lower(apiProducts[i].sellerProductName))

(***************************************************************************)
(* crawlCoupangDetailProducts: the page loop between login and release     *)
(* (src/unnamed/part_003:175-205) with scrapeProductPage                   *)
(* (src/unnamed/part_004:28-43) and saveCoupangProductDetails              *)
(* (src/src/infrastructure/repository/coupang.repository.ts:28-30).        *)
(* The listing has Len(listing) non-empty pages; every later page is empty.*)
(***************************************************************************)
\* the records extractProductDetails finds on page i, in order
PageRecords(i) ==
  IF i <= Len(listing) THEN [k \in 1..listing[i] |-> <<i, k>>] ELSE <<>>

InitDetailCrawl ==
  /\ listing \in UNION {[1..k -> 1..MaxPerPage] : k \in 0..MaxListPages}
  /\ currentPage = 1
  /\ isLastPage = FALSE
  /\ scrapedProducts = <<>>
  /\ cd_pc = "goto"
  /\ cd_failed = FALSE
  /\ cd_log = <<>>
  /\ Parked("detail")

\* scrapeProductPage(coupangPage, currentPage), part_004:28-43: page.goto of
\* the listing page, then extractProductDetails; either may throw, which
\* ends the loop in the catch of part_003:200-201
scrapeProductPage ==
  /\ \/ /\ cd_pc = "goto"
        /\ cd_log' = Append(cd_log, [op |-> "goto", page |-> currentPage, records |-> <<>>])
        /\ \E ok \in BOOLEAN :
             /\ cd_pc' = IF ok THEN "extract" ELSE "finally"
             /\ cd_failed' = ~ok
        /\ UNCHANGED scrapedProducts
     \/ /\ cd_pc = "extract"
        /\ \E ok \in BOOLEAN :
             /\ cd_pc' = IF ok THEN "save" ELSE "finally"
             /\ cd_failed' = ~ok
             /\ scrapedProducts' = IF ok THEN PageRecords(currentPage) ELSE scrapedProducts
        /\ UNCHANGED cd_log
  /\ UNCHANGED <<listing, currentPage, isLastPage>>
  /\ Keep("detail")

\* Mutant: the loop goes on without saving the records of the page.
saveCoupangProductDetails_Dropped ==
  /\ cd_pc = "save"
  /\ IF scrapedProducts = <<>>
       THEN /\ isLastPage' = TRUE
            /\ cd_pc' = "finally"
            /\ UNCHANGED currentPage
       ELSE /\ currentPage' = currentPage + 1
            /\ cd_pc' = "goto"
            /\ UNCHANGED isLastPage
  /\ UNCHANGED <<listing, scrapedProducts, cd_failed, cd_log>>
  /\ Keep("detail")

\* part_003:190-198: saveCoupangProductDetails(scrapedProducts), then an
\* empty page ends the loop and any other page advances currentPage; a
\* failing save ends the loop in the catch
saveCoupangProductDetails ==
  /\ cd_pc = "save"
  /\ \E ok \in BOOLEAN :
       IF ok
         THEN /\ cd_log' = Append(cd_log, [op |-> "save", page |-> currentPage,
                                           records |-> scrapedProducts])
              /\ IF scrapedProducts = <<>>
                   THEN /\ isLastPage' = TRUE
                        /\ cd_pc' = "finally"
                        /\ UNCHANGED currentPage
                   ELSE /\ currentPage' = currentPage + 1
                        /\ cd_pc' = "goto"
                        /\ UNCHANGED isLastPage
              /\ UNCHANGED cd_failed
         ELSE /\ cd_failed' = TRUE
              /\ cd_pc' = "finally"
              /\ UNCHANGED <<currentPage, isLastPage, cd_log>>
  /\ UNCHANGED <<listing, scrapedProducts>>
  /\ Keep("detail")

\* part_003:202-205: finally { releaseContext }, the function returns
crawlDetailFinally ==
  /\ cd_pc = "finally"
  /\ cd_pc' = "returned"
  /\ UNCHANGED <<listing, currentPage, isLastPage, scrapedProducts, cd_failed, cd_log>>
  /\ Keep("detail")

NextDetailCrawl == scrapeProductPage \/ saveCoupangProductDetails \/ crawlDetailFinally

SpecDetailCrawl == InitDetailCrawl /\ [][NextDetailCrawl]_vars

\* the page indices navigated to, in order
RECURSIVE Navigations(_)
Navigations(log) ==
  IF log = <<>> THEN <<>>
  ELSE (IF Head(log).op = "goto" THEN <<Head(log).page>> ELSE <<>>)
         \o Navigations(Tail(log))

\* the records persisted, in order
RECURSIVE Persisted(_)
Persisted(log) ==
  IF log = <<>> THEN <<>>
  ELSE (IF Head(log).op = "save" THEN Head(log).records ELSE <<>>)
         \o Persisted(Tail(log))

\* the records of pages 1..n of the listing, in order
RECURSIVE RecordsUpTo(_)
RecordsUpTo(n) ==
  IF n = 0 THEN <<>>
  ELSE RecordsUpTo(n - 1) \o [k \in 1..listing[n] |-> <<n, k>>]

\* C14: over k non-empty pages followed by an empty page the crawl navigates
\* to the pages 1..k+1, in increasing order and each once, persists exactly
\* the records of the k non-empty pages, and persists page i before it
\* navigates to page i+1.
C14_PagesInOrderSavedAtOnce ==
  LET nav == Navigations(cd_log) IN
  /\ nav = [i \in 1..Len(nav) |-> i]
  /\ \A x \in 1..Len(cd_log) :
       (cd_log[x].op = "goto" /\ cd_log[x].page > 1)
         => /\ cd_log[x - 1].op = "save"
            /\ cd_log[x - 1].page = cd_log[x].page - 1
            /\ cd_log[x - 1].records = PageRecords(cd_log[x].page - 1)
  /\ (cd_pc = "returned" /\ ~cd_failed)
       => /\ Len(nav) = Len(listing) + 1
          /\ Persisted(cd_log) = RecordsUpTo(Len(listing))

\* C14 witness: a crawl over the largest listing has come to its end
C14_Witness ==
  /\ cd_pc = "returned"
  /\ ~cd_failed
  /\ Len(listing) = MaxListPages
  /\ Len(Navigations(cd_log)) = MaxListPages + 1

(***************************************************************************)
(* The batch operations of CoupangService (src/unnamed/part_005) and the   *)
(* marketplace calls of CoupangApiService they loop over                   *)
(* (src/unnamed/part_007).  A marketplace request is answered "ok", or     *)
(* fails ("error": axios rejects); an invoice upload may also be answered  *)
(* with responseMessage FAIL.  An API method ends "resolved" or "thrown".  *)
(***************************************************************************)
BatchOps ==
  {"coupangProductsPriceControl", "shippingCostManagement",
   "stopSaleBySellerProductId", "deleteProducts", "uploadInvoices"}

\* what the marketplace may answer to the request of each call
Responses(call) ==
  {"ok", "error"} \cup (IF call = "uploadInvoice" THEN {"FAIL"} ELSE {})

\* Mutant: putStopSellingItem rethrows what it caught.
putStopSellingItem_Rethrows(response) ==
  IF response = "ok" THEN "resolved" ELSE "thrown"

\* CoupangApiService.putStopSellingItem, part_007:203-228: the catch logs
\* and the method returns
putStopSellingItem(response) == "resolved"

\* CoupangApiService.deleteProduct, part_007:248-265: returns the axios
\* promise, no catch
deleteProduct(response) ==
  IF response = "ok" THEN "resolved" ELSE "thrown"

\* CoupangApiService.uploadInvoice, part_007:338-378: throws on
\* responseMessage FAIL, and the catch rethrows
uploadInvoice(response) ==
  IF response = "ok" THEN "resolved" ELSE "thrown"

\* CoupangApiService.putUpdateProduct, part_007:285-301: awaits the axios
\* promise, no catch
putUpdateProduct(response) ==
  IF response = "ok" THEN "resolved" ELSE "thrown"

\* the axios.put of coupangProductsPriceControl, part_005:229-235
priceUpdate(response) ==
  IF response = "ok" THEN "resolved" ELSE "thrown"

InitBatch ==
  /\ bt_op \in BatchOps
  /\ bt_items \in 0..MaxItems
  /\ bt_pc = "loop"
  /\ successCount = 0
  /\ failedCount = 0
  /\ bt_log = <<>>
  /\ Parked("batch")

\* the loop has handled every item and the operation returns
BatchReturns ==
  /\ Len(bt_log) = bt_items
  /\ bt_pc' = "returned"
  /\ UNCHANGED <<bt_op, bt_items, successCount, failedCount, bt_log>>
  /\ UNCHANGED sigVars

\* the call made for the next item is logged with its response and outcome
Logged(call, response, outcome) ==
  bt_log' = Append(bt_log, [call |-> call, response |-> response, outcome |-> outcome])

\* coupangProductsPriceControl, part_005:195-286: for each updated item sign,
\* put the price, successCount++ in the try or failedCount++ in the catch
coupangProductsPriceControl ==
  /\ bt_op = "coupangProductsPriceControl"
  /\ bt_pc = "loop"
  /\ \/ /\ Len(bt_log) < bt_items
        /\ \E response \in Responses("priceUpdate") :
             LET outcome == priceUpdate(response) IN
               /\ Logged("priceUpdate", response, outcome)
               /\ IF outcome = "resolved"
                    THEN successCount' = successCount + 1 /\ UNCHANGED failedCount
                    ELSE failedCount' = failedCount + 1 /\ UNCHANGED successCount
        /\ SignedRequest
        /\ UNCHANGED <<bt_op, bt_items, bt_pc>>
     \/ BatchReturns
  /\ Keep("batch")

\* Mutant: the catch of shippingCostManagement logs without counting.
shippingCostManagement_FailureNotCounted ==
  /\ bt_op = "shippingCostManagement"
  /\ bt_pc = "loop"
  /\ \/ /\ Len(bt_log) < bt_items
        /\ \E response \in Responses("putUpdateProduct") :
             LET outcome == putUpdateProduct(response) IN
               /\ Logged("putUpdateProduct", response, outcome)
               /\ IF outcome = "resolved"
                    THEN successCount' = successCount + 1 /\ UNCHANGED failedCount
                    ELSE UNCHANGED <<successCount, failedCount>>
        /\ SignedRequest
        /\ UNCHANGED <<bt_op, bt_items, bt_pc>>
     \/ BatchReturns
  /\ Keep("batch")

\* shippingCostManagement, part_005:303-329: for each product
\* try { putUpdateProduct; successCount++ } catch { failedCount++ }
shippingCostManagement ==
  /\ bt_op = "shippingCostManagement"
  /\ bt_pc = "loop"
  /\ \/ /\ Len(bt_log) < bt_items
        /\ \E response \in Responses("putUpdateProduct") :
             LET outcome == putUpdateProduct(response) IN
               /\ Logged("putUpdateProduct", response, outcome)
               /\ IF outcome = "resolved"
                    THEN successCount' = successCount + 1 /\ UNCHANGED failedCount
                    ELSE failedCount' = failedCount + 1 /\ UNCHANGED successCount
        /\ SignedRequest
        /\ UNCHANGED <<bt_op, bt_items, bt_pc>>
     \/ BatchReturns
  /\ Keep("batch")

\* stopSaleBySellerProductId, part_005:77-92: the loop over the items of the
\* looked-up products awaits putStopSellingItem outside any try, so an
\* exception of it would end the batch
stopSaleBySellerProductId ==
  /\ bt_op = "stopSaleBySellerProductId"
  /\ bt_pc = "loop"
  /\ \/ /\ Len(bt_log) < bt_items
        /\ \E response \in Responses("putStopSellingItem") :
             LET outcome == putStopSellingItem(response) IN
               /\ Logged("putStopSellingItem", response, outcome)
               /\ bt_pc' = IF outcome = "thrown" THEN "thrown" ELSE bt_pc
        /\ SignedRequest
        /\ UNCHANGED <<bt_op, bt_items, successCount, failedCount>>
     \/ BatchReturns
  /\ Keep("batch")

\* deleteProducts, part_005:114-176: for each product
\* try { deleteProduct; push } catch { log }
deleteProducts ==
  /\ bt_op = "deleteProducts"
  /\ bt_pc = "loop"
  /\ \/ /\ Len(bt_log) < bt_items
        /\ \E response \in Responses("deleteProduct") :
             Logged("deleteProduct", response, deleteProduct(response))
        /\ SignedRequest
        /\ UNCHANGED <<bt_op, bt_items, bt_pc, successCount, failedCount>>
     \/ BatchReturns
  /\ Keep("batch")

\* uploadInvoices, part_005:377-418: for each invoice
\* try { uploadInvoice; status = 'success' } catch { error = message }
uploadInvoices ==
  /\ bt_op = "uploadInvoices"
  /\ bt_pc = "loop"
  /\ \/ /\ Len(bt_log) < bt_items
        /\ \E response \in Responses("uploadInvoice") :
             Logged("uploadInvoice", response, uploadInvoice(response))
        /\ SignedRequest
        /\ UNCHANGED <<bt_op, bt_items, bt_pc, successCount, failedCount>>
     \/ BatchReturns
  /\ Keep("batch")

NextBatch ==
  \/ coupangProductsPriceControl
  \/ shippingCostManagement
  \/ stopSaleBySellerProductId
  \/ deleteProducts
  \/ uploadInvoices

SpecBatch == InitBatch /\ [][NextBatch]_vars

\* the number of logged calls that ended with outcome o
Ended_With(o) == Cardinality({x \in 1..Len(bt_log) : bt_log[x].outcome = o})

\* C15: in coupangProductsPriceControl and shippingCostManagement
\* successCount + failedCount is the number of items processed so far, and
\* the length of the worklist when the loop has ended; each item increments
\* exactly one of the two counters, once.
C15_CountersAddUp ==
  bt_op \in {"coupangProductsPriceControl", "shippingCostManagement"} =>
    /\ successCount + failedCount = Len(bt_log)
    /\ successCount = Ended_With("resolved")
    /\ failedCount = Ended_With("thrown")
    /\ bt_pc = "returned" => successCount + failedCount = bt_items

\* C15 witness: a full worklist was processed with requests of both outcomes
C15_Witness ==
  /\ bt_op = "shippingCostManagement"
  /\ bt_pc = "returned"
  /\ bt_items = MaxItems
  /\ successCount >= 1
  /\ failedCount >= 1

\* C16: a failed request inside putStopSellingItem never raises to the
\* caller, and the batch goes on with the next item; a failed request inside
\* deleteProduct or uploadInvoice, a FAIL invoice response included, always
\* raises.
C16_SwallowOrRaise ==
  /\ \A x \in 1..Len(bt_log) :
       /\ bt_log[x].call = "putStopSellingItem" => bt_log[x].outcome = "resolved"
       /\ (bt_log[x].call \in {"deleteProduct", "uploadInvoice"}
             /\ bt_log[x].response # "ok") => bt_log[x].outcome = "thrown"
  /\ bt_op = "stopSaleBySellerProductId" =>
       /\ bt_pc # "thrown"
       /\ bt_pc = "returned" => Len(bt_log) = bt_items

\* C16 witness: the first stop-sale request of a batch failed and the batch
\* went on to the end of its worklist
C16_Witness ==
  /\ bt_op = "stopSaleBySellerProductId"
  /\ bt_pc = "returned"
  /\ bt_items = MaxItems
  /\ bt_log[1].response = "error"

(***************************************************************************)
(* Request signing: every caller of createHmacSignature, the paging client *)
(* and the batch operations taken together.                                *)
(***************************************************************************)

InitSigned == InitPaging \/ InitBatch

NextSigned == NextPaging \/ NextBatch

SpecSigned == InitSigned /\ [][NextSigned]_vars

\* the number of request attempts made so far by the operation that runs
Attempts == IF bt_pc = "idle" THEN Len(reqLog) ELSE Len(bt_log)

Millis == {0, 500}

Methods == {"GET", "PUT"}

Paths == {"/seller-products"}

\* values of the nextToken argument
TokenTexts == {"", "2"}

\* values of the params argument: the entries of the object, in the order
\* URLSearchParams enumerates them
ParamObjects ==
  {<<>>,
   <<[key |-> "status", value |-> "ACCEPT"]>>}

\* new Date().toISOString().substr(2, 17) with ':' and '-' removed, plus 'Z'
\* (slice(2, 19) in createParamHmacSignature): the time to the second, the
\* milliseconds are cut off
Datetime(now) == now.sec

\* new URLSearchParams({vendorId, nextToken, maxPerPage, status}).toString(),
\* or '' without useQuery
Query(vendorId, token, useQuery) ==
  IF useQuery
    THEN <<"vendorId=", vendorId, "&nextToken=", token,
           "&maxPerPage=100&status=APPROVED">>
    ELSE <<>>

\* new URLSearchParams(params).toString()
RECURSIVE ParamQuery(_)
ParamQuery(params) ==
  IF params = <<>> THEN <<>>
  ELSE <<Head(params).key, "=", Head(params).value>>
         \o (IF Len(params) > 1 THEN <<"&">> ELSE <<>>)
         \o ParamQuery(Tail(params))

\* Mutant: the message is salted with the milliseconds of the clock.
Message_Salted(datetime, method, path, query) ==
  <<datetime, method, path>> \o query \o <<sg_now.ms>>

\* const message = datetime + method + path + query
Message(datetime, method, path, query) ==
  <<datetime, method, path>> \o query

\* crypto.createHmac('sha256', secretKey).update(message).digest('hex')
Hmac(secretKey, message) == [key |-> secretKey, message |-> message]

\* `CEA algorithm=HmacSHA256, access-key=..., signed-date=..., signature=...`
Authorization(accessKey, datetime, signature) ==
  [accessKey |-> accessKey, signedDate |-> datetime, signature |-> signature]

\* the { authorization, datetime } a signing call returns for a query string
Signed(method, path, query) ==
  LET datetime == Datetime(sg_now) IN
    [authorization |->
       Authorization(sg_keys.accessKey, datetime,
                     Hmac(sg_keys.secretKey, Message(datetime, method, path, query))),
     datetime |-> datetime]

\* the call is recorded with its arguments, the clock and its result
Called(fn, method, path, args, result) ==
  /\ Len(sg_calls) < MaxCalls
  /\ sg_calls' = Append(sg_calls,
       [fn |-> fn, method |-> method, path |-> path, args |-> args,
        at |-> sg_now, result |-> result])
  /\ UNCHANGED <<sg_keys, sg_now>>

InitHmac ==
  /\ sg_keys \in [secretKey : {"secret1", "secret2"}, accessKey : {"access"},
                  vendorId : {"A00"}]
  /\ sg_now = [sec |-> 0, ms |-> 0]
  /\ sg_calls = <<>>
  /\ IdleRequests
  /\ Parked("hmac")

\* time passes between two calls
Tick ==
  /\ \E ms \in Millis :
       \/ ms > sg_now.ms /\ sg_now' = [sg_now EXCEPT !.ms = ms]
       \/ sg_now.sec < MaxSeconds /\ sg_now' = [sec |-> sg_now.sec + 1, ms |-> ms]
  /\ UNCHANGED <<sg_keys, sg_calls>>
  /\ UNCHANGED rqVars
  /\ Keep("hmac")

createHmacSignature ==
  /\ \E method \in Methods, path \in Paths, token \in TokenTexts, useQuery \in BOOLEAN :
       Called("createHmacSignature", method, path, <<token, useQuery>>,
              Signed(method, path, Query(sg_keys.vendorId, token, useQuery)))
  /\ UNCHANGED rqVars
  /\ Keep("hmac")

createParamHmacSignature ==
  /\ \E method \in Methods, path \in Paths, params \in ParamObjects :
       Called("createParamHmacSignature", method, path, params,
              Signed(method, path, ParamQuery(params)))
  /\ UNCHANGED rqVars
  /\ Keep("hmac")

NextHmac ==
  \/ Tick
  \/ createHmacSignature
  \/ createParamHmacSignature

SpecHmac == InitHmac /\ [][NextHmac]_vars

\* calls i and j were made with the same arguments in the same second
SameInputs(i, j) ==
  /\ sg_calls[i].fn = sg_calls[j].fn
  /\ sg_calls[i].method = sg_calls[j].method
  /\ sg_calls[i].path = sg_calls[j].path
  /\ sg_calls[i].args = sg_calls[j].args
  /\ sg_calls[i].result.datetime = sg_calls[j].result.datetime

ListMethods == {"getProductListPaging", "getCoupangOrderList"}

\* the vendor ids of the configuration and of a message payload
VendorIds == {"A00", "L00"}

Param(key, value) == [key |-> key, value |-> value]

\* the entries createHmacSignature gives to URLSearchParams with useQuery
\* (orderStatusUpdate.provider.ts:201-208), and the params object of the
\* product-list request (part_007:68-73): maxPerPage 100 is sent as "100"
QueryParams(vendorId, token) ==
  << Param("vendorId", vendorId), Param("nextToken", token),
     Param("maxPerPage", "100"), Param("status", "APPROVED") >>

\* the params object of getCoupangOrderList, as signed (part_008:223-230)
\* and as sent (part_008:240-247)
OrderParams(vendorId, token) ==
  << Param("vendorId", vendorId), Param("createdAtFrom", "yesterday"),
     Param("createdAtTo", "today"), Param("status", "ACCEPT"),
     Param("nextToken", token), Param("maxPerPage", "50") >>

\* const apiPath of the running method (part_007:39, part_008:214)
ApiPath ==
  IF rq_fn = "getProductListPaging"
    THEN <<"/marketplace/seller-products">>
    ELSE <<"/vendors/", rq_vendorId, "/ordersheets">>

\* the query parameters that are signed: those createHmacSignature builds
\* from its own vendorId and the nextToken argument, or the params argument
\* of createParamHmacSignature
SignedParams ==
  IF rq_fn = "getProductListPaging"
    THEN QueryParams(sg_keys.vendorId, rq_token)
    ELSE OrderParams(rq_vendorId, rq_token)

\* the params of the axios.get call
SentParams ==
  IF rq_fn = "getProductListPaging"
    THEN QueryParams(rq_env.COUPANG_VENDOR_ID, rq_token)
    ELSE OrderParams(rq_env.L_COUPANG_VENDOR_ID, rq_token)

\* the query string axios appends to the url: key=value joined by '&', in
\* the order of the object's keys
Serialized(params) == ParamQuery(params)

InitRequests ==
  /\ sg_keys \in [secretKey : {"secret1"}, accessKey : {"access"},
                  vendorId : {"A00"}]
  /\ sg_now = [sec |-> 0, ms |-> 0]
  /\ sg_calls = <<>>
  /\ rq_env \in [COUPANG_VENDOR_ID : {sg_keys.vendorId},
                  L_COUPANG_VENDOR_ID : VendorIds]
  /\ rq_fn \in ListMethods
  /\ rq_vendorId \in IF rq_fn = "getCoupangOrderList" THEN VendorIds ELSE {""}
  /\ rq_token = ""
  /\ rq_signed = <<>>
  /\ rq_pc = "sign"
  /\ rq_log = <<>>
  /\ Parked("hmac")

\* the signing call of the next page, part_007:52-57 and part_008:220-231
signListRequest ==
  /\ rq_pc = "sign"
  /\ Len(rq_log) < MaxCalls
  /\ rq_signed' = Signed("GET", ApiPath, ParamQuery(SignedParams))
  /\ rq_pc' = "send"
  /\ UNCHANGED <<rq_env, rq_fn, rq_vendorId, rq_token, rq_log>>
  /\ UNCHANGED hmVars
  /\ Keep("hmac")

\* axios.get with the headers of the signing call, part_007:61-74 and
\* part_008:233-248; the response carries the next token or none
\* (part_007:79-87, part_008:253-254); an error is retried by
\* getProductListPaging and rethrown by getCoupangOrderList
sendListRequest ==
  /\ rq_pc = "send"
  /\ rq_log' = Append(rq_log,
       [method |-> "GET", path |-> ApiPath, params |-> SentParams,
        headers |-> [Authorization |-> rq_signed.authorization,
                     XCoupangDate |-> rq_signed.datetime]])
  /\ \E response \in {"next", "last", "error"} :
       /\ rq_token' = IF response = "next" THEN "2" ELSE rq_token
       /\ rq_pc' = CASE response = "next" -> "sign"
                     [] response = "last" -> "returned"
                     [] OTHER -> IF rq_fn = "getProductListPaging"
                                   THEN "sign" ELSE "thrown"
  /\ UNCHANGED <<rq_env, rq_fn, rq_vendorId, rq_signed>>
  /\ UNCHANGED hmVars
  /\ Keep("hmac")

NextRequests ==
  \/ Tick
  \/ signListRequest
  \/ sendListRequest

SpecRequests == InitRequests /\ [][NextRequests]_vars

\* C36: every signed request is consistent with what was signed: the method
\* and path passed to signing are those of the request, X-Coupang-Date
\* equals the signed-date of the Authorization header, and the query
\* parameters sent by getProductListPaging and getCoupangOrderList have the
\* names, values and order of those signed, the vendor id and the current
\* cursor token included.
C36_SentAsSigned ==
  \A k \in 1..Len(rq_log) :
    LET request == rq_log[k]
        authorization == request.headers.Authorization IN
      /\ request.headers.XCoupangDate = authorization.signedDate
      /\ authorization.signature.message =
           Message(request.headers.XCoupangDate, request.method, request.path,
                   Serialized(request.params))

(***************************************************************************)
(* OrderConfirmation: OrderStatusUpdateProvider.updateOrderStatus          *)
(* (orderStatusUpdate.provider.ts:29-173), called by orderStatusUpdate     *)
(* (part_003:54-75) from processMessage (controller.ts:156-158).           *)
(***************************************************************************)

\* the step that follows step s when s completed and the function goes on
\* ("select" is one click of selectAllCheckboxes and has its own loop)
Successor(s) ==
  CASE s = "navigate" -> "find"
    [] s = "confirm" -> "courier"
    [] s = "courier" -> "reason"
    [] s = "reason" -> "submit"
    [] OTHER -> "caller"

\* Mutant: the catch block logs the error and the function goes on.
StepDone_GoesOn(s, ok) == Successor(s)

\* where updateOrderStatus stands after step s: the next step, or its
\* caller after the catch block of lines 49-52
StepDone(s, ok) == IF ok THEN Successor(s) ELSE "caller"

\* Mutant: an empty array of checkboxes goes to the (empty) selection loop
\* and on to the confirm click.
AfterFind_NoEarlyReturn(n) == IF n = 0 THEN "confirm" ELSE "select"

\* if (checkboxes.length === 0) return false, lines 37-40
AfterFind(n) == IF n = 0 THEN "caller" ELSE "select"

\* the number of checkbox clicks made so far
Clicks == Cardinality({i \in 1..Len(oc_log) : oc_log[i].step = "select" /\ oc_log[i].ok})

\* step s is logged with its outcome; note is "forced" when the disabled
\* attribute was removed before the click (lines 98-104) and "missing" when
\* the submit button was not in the page (lines 168-170)
StepLogged(s, ok, note) ==
  oc_log' = Append(oc_log, [step |-> s, ok |-> ok, note |-> note])

\* what updateOrderStatus returns when it reaches pc next from a step that
\* ended ok: false from the catch and from the empty case, true at the end
Returned(next, ok, value) ==
  oc_ret' = IF next = "caller" THEN (IF ok THEN value ELSE "false") ELSE oc_ret

InitConfirm ==
  /\ oc_boxes \in 0..MaxBoxes
  /\ oc_pc = "navigate"
  /\ oc_log = <<>>
  /\ oc_ret = "none"
  /\ oc_released = 0
  /\ oc_reply = NoReply
  /\ Parked("confirm")

\* a step that is one awaited helper: navigateToDeliveryPage (61-66), the
\* confirm click (116-121), selectCourierCompany (138-142),
\* enterDetailReason (149-153)
PlainStep(s) ==
  /\ \E ok \in BOOLEAN :
       /\ StepLogged(s, ok, "")
       /\ oc_pc' = StepDone(s, ok)
       /\ Returned(StepDone(s, ok), ok, "true")
  /\ UNCHANGED <<oc_boxes, oc_released, oc_reply>>
  /\ Keep("confirm")

navigateToDeliveryPage ==
  /\ oc_pc = "navigate"
  /\ PlainStep("navigate")

\* findCompletedOrderCheckboxes, lines 75-84: a selector that never attaches
\* is logged, and page.$$ returns the oc_boxes elements there are
findCompletedOrderCheckboxes ==
  /\ oc_pc = "find"
  /\ \E ok \in BOOLEAN :
       LET next == IF ok THEN AfterFind(oc_boxes) ELSE StepDone("find", FALSE) IN
         /\ StepLogged("find", ok, "")
         /\ oc_pc' = next
         /\ Returned(next, ok, "false")
  /\ UNCHANGED <<oc_boxes, oc_released, oc_reply>>
  /\ Keep("confirm")

\* selectAllCheckboxes, lines 92-106: one iteration of the loop; after the
\* click of the last checkbox confirmOrderAndFillForm is called
selectAllCheckboxes ==
  /\ oc_pc = "select"
  /\ Clicks < oc_boxes
  /\ \E ok \in BOOLEAN, isDisabled \in BOOLEAN :
       LET next == IF ok /\ Clicks + 1 < oc_boxes THEN "select"
                   ELSE IF ok THEN "confirm" ELSE StepDone("select", FALSE) IN
         /\ StepLogged("select", ok, IF isDisabled THEN "forced" ELSE "")
         /\ oc_pc' = next
         /\ Returned(next, ok, "true")
  /\ UNCHANGED <<oc_boxes, oc_released, oc_reply>>
  /\ Keep("confirm")

clickConfirmOrder ==
  /\ oc_pc = "confirm"
  /\ PlainStep("confirm")

selectCourierCompany ==
  /\ oc_pc = "courier"
  /\ PlainStep("courier")

enterDetailReason ==
  /\ oc_pc = "reason"
  /\ PlainStep("reason")

\* clickDownloadButton, lines 160-172: page.evaluate clicks the button, or
\* logs that there is none and resolves all the same;
\* updateOrderStatus returns true after it
clickDownloadButton ==
  /\ oc_pc = "submit"
  /\ \E ok \in BOOLEAN, found \in BOOLEAN :
       /\ ok \/ found
       /\ StepLogged("submit", ok, IF found THEN "" ELSE "missing")
       /\ oc_pc' = StepDone("submit", ok)
       /\ Returned(StepDone("submit", ok), ok, "true")
  /\ UNCHANGED <<oc_boxes, oc_released, oc_reply>>
  /\ Keep("confirm")

\* orderStatusUpdate after the await of updateOrderStatus, part_003:67-74:
\* the boolean is dropped, completion is logged, the finally block releases
\* the context and the function returns undefined
orderStatusUpdateReturns ==
  /\ oc_pc = "caller"
  /\ oc_released' = oc_released + 1
  /\ oc_pc' = "handler"
  /\ UNCHANGED <<oc_boxes, oc_log, oc_ret, oc_reply>>
  /\ Keep("confirm")

\* case 'orderStatusUpdate' of processMessage, controller.ts:156-158
processMessageReturns ==
  /\ oc_pc = "handler"
  /\ oc_reply' = processMessageResult("orderStatusUpdate", "undefined")
  /\ oc_pc' = "done"
  /\ UNCHANGED <<oc_boxes, oc_log, oc_ret, oc_released>>
  /\ Keep("confirm")

NextConfirm ==
  \/ navigateToDeliveryPage
  \/ findCompletedOrderCheckboxes
  \/ selectAllCheckboxes
  \/ clickConfirmOrder
  \/ selectCourierCompany
  \/ enterDetailReason
  \/ clickDownloadButton
  \/ orderStatusUpdateReturns
  \/ processMessageReturns

SpecConfirm == InitConfirm /\ [][NextConfirm]_vars

\* the steps of a complete confirmation of n checkboxes
FullRun(n) ==
  <<"navigate", "find">> \o [i \in 1..n |-> "select"]
    \o <<"confirm", "courier", "reason", "submit">>

\* step s was executed
Executed(s) == \E i \in 1..Len(oc_log) : oc_log[i].step = s

\* some step failed
StepFailed == \E i \in 1..Len(oc_log) : ~oc_log[i].ok

\* C22: OrderConfirmation performs its steps in the order navigate, select
\* every collected checkbox, click confirm, select the courier, fill the
\* justification, click submit; no step is executed twice, and after a step
\* failed no later step is executed.
C22_StepsInOrder ==
  /\ Len(oc_log) <= Len(FullRun(oc_boxes))
  /\ \A i \in 1..Len(oc_log) : oc_log[i].step = FullRun(oc_boxes)[i]
  /\ \A i \in 1..Len(oc_log) : ~oc_log[i].ok => i = Len(oc_log)

\* a confirmation of two checkboxes ran to its end
C22_Witness ==
  /\ oc_boxes = 2
  /\ oc_pc = "caller"
  /\ Len(oc_log) = Len(FullRun(2))
  /\ ~StepFailed

\* C23: when a step of OrderConfirmation fails, orderStatusUpdate ends with
\* an error that reaches the dispatcher, which reports an error result; a
\* failed confirmation is not reported as completed.
C23_FailedStepReported ==
  (oc_pc = "done" /\ StepFailed) =>
    (oc_reply.kind = "exception" \/ oc_reply.status = "error")

\* C39: updateOrderStatus returns true only if the final submit control was
\* found and clicked; when the submit button is absent from the page the
\* confirmation is not reported as done.
C39_TrueOnlyIfSubmitted ==
  oc_ret = "true" =>
    \E k \in 1..Len(oc_log) :
      /\ oc_log[k].step = "submit"
      /\ oc_log[k].ok
      /\ oc_log[k].note # "missing"

\* C24: when no payment-complete checkbox is found, no checkbox is clicked,
\* no confirm click, form fill or submit is made, the function returns
\* without raising, and the session is still released.
C24_NothingToConfirm ==
  (oc_boxes = 0 /\ Executed("find")) =>
    /\ \A s \in {"select", "confirm", "courier", "reason", "submit"} : ~Executed(s)
    /\ oc_ret = "false"
    /\ oc_pc \in {"handler", "done"} => oc_released = 1

\* the page had no checkbox and the workflow has ended
C24_Witness ==
  /\ oc_boxes = 0
  /\ Executed("find")
  /\ ~StepFailed
  /\ oc_pc = "done"

(***************************************************************************)
(* Browser invoiceUpload: the loop over the orders (part_003:105-139 in    *)
(* one revision of CoupangCrawlerService, 514-549 in the other) and        *)
(* InvoiceUploaderProvider.processOrder (part_003:808-868) against a       *)
(* processing table of up_pages pages.                                     *)
(***************************************************************************)

InitUpload ==
  /\ up_rev \in {"perOrder", "once"}
  /\ up_pages \in 1..MaxTablePages
  /\ up_selfLink \in BOOLEAN
  /\ up_rows \in UNION {[1..n -> 0..up_pages] : n \in 1..MaxOrders}
  /\ up_shown = 1
  /\ up_order = 1
  /\ up_currentPage = 1
  /\ up_result = NoResult
  /\ up_pc = IF up_rev = "once" THEN "open" ELSE "order"
  /\ up_results = <<>>
  /\ Parked("upload")

UploadFrame ==
  /\ UNCHANGED <<up_rev, up_pages, up_selfLink, up_rows>>
  /\ Keep("upload")

\* processOrder returns result: invoiceUpload pushes it and takes the next
\* order
Pushed(result) ==
  /\ up_results' = Append(up_results, result)
  /\ up_order' = up_order + 1
  /\ up_result' = NoResult
  /\ up_pc' = "order"

\* part_003:526-529: navigateToDeliveryManagementPage and
\* clickProcessingButton, once before the loop
openProcessingTable ==
  /\ up_pc = "open"
  /\ \E ok \in BOOLEAN : up_pc' = IF ok THEN "order" ELSE "thrown"
  /\ UNCHANGED <<up_shown, up_order, up_currentPage, up_result, up_results>>
  /\ UploadFrame

\* the head of the loop over updatedOrders: return results after the last
\* order; otherwise (lines 122-126) load the delivery page anew, or
\* (lines 535-536) leave the page as it is, and call processOrder, which
\* sets currentPage = 1
invoiceUploadLoop ==
  /\ up_pc = "order"
  /\ \/ /\ up_order > Len(up_rows)
        /\ up_pc' = "returned"
        /\ UNCHANGED <<up_shown, up_currentPage>>
     \/ /\ up_order <= Len(up_rows)
        /\ up_rev = "perOrder"
        /\ \E ok \in BOOLEAN :
             IF ok THEN up_pc' = "search" /\ up_shown' = 1 /\ up_currentPage' = 1
                   ELSE up_pc' = "thrown" /\ UNCHANGED <<up_shown, up_currentPage>>
     \/ /\ up_order <= Len(up_rows)
        /\ up_rev = "once"
        /\ up_pc' = "search"
        /\ up_currentPage' = 1
        /\ UNCHANGED up_shown
  /\ UNCHANGED <<up_order, up_result, up_results>>
  /\ UploadFrame

\* findMatchingRow, lines 883-900: the rows of the page shown are searched
\* for one that contains the name and the safe number
findMatchingRow ==
  /\ up_pc = "search"
  /\ \E ok \in BOOLEAN :
       IF ok
         THEN /\ up_result' = [up_result EXCEPT !.scanned = Append(@, up_shown)]
              /\ up_pc' = IF up_rows[up_order] = up_shown THEN "row" ELSE "next"
              /\ UNCHANGED <<up_order, up_results>>
         ELSE Pushed([up_result EXCEPT !.error = "error"])
  /\ UNCHANGED <<up_shown, up_currentPage>>
  /\ UploadFrame

\* how far the handling of a matching row gets: an error up to the apply
\* click, an error of the delay or the reload after it, an error of
\* clickProcessingButton, or no error
RowOutcomes == {"apply", "reload", "processing", "done"}

\* the result after lines 832-848: applyChangesAndReload sets
\* result.status = 'success' after the click (line 1002), before the delay
\* and the reload; the catch of processOrder sets result.error (line 862)
RowResult(result, outcome) ==
  [result EXCEPT !.row = outcome,
                 !.status = IF outcome = "apply" THEN @ ELSE "success",
                 !.error = IF outcome = "done" THEN @ ELSE "error"]

\* lines 829-848: selectCheckbox, selectCourier, enterTrackingNumber,
\* applyChangesAndReload, clickProcessingButton; the reloaded page shows the
\* first page of the table
processRow ==
  /\ up_pc = "row"
  /\ \E outcome \in RowOutcomes :
       /\ Pushed(RowResult(up_result, outcome))
       /\ up_shown' = IF outcome \in {"processing", "done"} THEN 1 ELSE up_shown
  /\ UNCHANGED up_currentPage
  /\ UploadFrame

\* page.$(`span[data-wuic-attrs^="page:${currentPage + 1}"] a`): the pager
\* has a link for the pages of the table, for the page shown only when the
\* pager renders it as a link
HasLink(n) == n <= up_pages /\ (up_selfLink \/ n # up_shown)

\* the page index navigateToNextPage looks up: currentPage + 1
NextIndex == up_currentPage + 1

\* navigateToNextPage, lines 1023-1041, and lines 851-859 of processOrder
navigateToNextPage ==
  /\ up_pc = "next"
  /\ IF HasLink(NextIndex)
       THEN \E ok \in BOOLEAN, landed \in BOOLEAN :
              IF ok
                THEN /\ landed
                     /\ up_shown' = NextIndex
                     /\ up_currentPage' = up_currentPage + 1
                     /\ up_pc' = "search"
                     /\ UNCHANGED <<up_order, up_result, up_results>>
                ELSE /\ Pushed([up_result EXCEPT !.error = "error"])
                     /\ up_shown' = IF landed THEN NextIndex ELSE up_shown
                     /\ UNCHANGED up_currentPage
       ELSE /\ Pushed([up_result EXCEPT !.error = "not found"])
            /\ UNCHANGED <<up_shown, up_currentPage>>
  /\ UploadFrame

NextUpload ==
  \/ openProcessingTable
  \/ invoiceUploadLoop
  \/ findMatchingRow
  \/ processRow
  \/ navigateToNextPage

SpecUpload == InitUpload /\ [][NextUpload]_vars

\* the pages in sequence q
PagesIn(q) == {q[i] : i \in 1..Len(q)}

\* sequence q is strictly increasing
Increasing(q) == \A i \in 1..Len(q) - 1 : q[i] < q[i + 1]

\* C25: an order is marked failed with the not-found reason only after every
\* page of the processing table, from the first to the last, has been
\* scanned for its row; this holds for every order of the list, whatever
\* page the search for the previous order ended on.
C25_NotFoundAfterFullScan ==
  \A i \in 1..Len(up_results) :
    up_results[i].error = "not found" =>
      PagesIn(up_results[i].scanned) = 1..up_pages

\* C26: an order's result has status 'success' only if the apply click, the
\* reload and the return to the processing table all completed without
\* error, and a result with status 'success' has an empty error field.
C26_SuccessMeansApplied ==
  \A i \in 1..Len(up_results) :
    up_results[i].status = "success" =>
      (up_results[i].row = "done" /\ up_results[i].error = "")

\* C27: the search loop of processOrder ends the loop or moves to a
\* strictly higher page index in each iteration, and scans no page index
\* twice for the same order.
C27_PagesScannedAscending ==
  /\ Increasing(up_result.scanned)
  /\ \A i \in 1..Len(up_results) : Increasing(up_results[i].scanned)

(***************************************************************************)
(* scrapePriceComparisonPages (crawlCoupangPriceComparison.provider.ts     *)
(* :19-69) against a price list whose getProductList response reports      *)
(* totalPages anew with every page.                                        *)
(***************************************************************************)

InitCompare ==
  /\ sp_currentPage = 1
  /\ sp_pc = "goto"
  /\ sp_log = <<>>
  /\ Parked("compare")

\* one iteration of while (true), lines 28-68: goto the page currentPage,
\* await the response, save its result, break when totalPages === currentPage
\* and go on with currentPage + 1 otherwise; an error of goto, of the
\* response or of the save leaves the function
scrapePriceComparisonPage ==
  /\ sp_pc = "goto"
  /\ sp_currentPage <= MaxRequests
  /\ \/ /\ sp_pc' = "thrown"
        /\ UNCHANGED <<sp_currentPage, sp_log>>
     \/ \E totalPages \in 0..MaxTotalPages :
          /\ sp_log' = Append(sp_log, [page |-> sp_currentPage, totalPages |-> totalPages])
          /\ IF totalPages = sp_currentPage
               THEN sp_pc' = "returned" /\ UNCHANGED sp_currentPage
               ELSE sp_pc' = "goto" /\ sp_currentPage' = sp_currentPage + 1
  /\ Keep("compare")

NextCompare == scrapePriceComparisonPage

SpecCompare == InitCompare /\ [][NextCompare]_vars

\* C28: scrapePriceComparisonPages terminates for every totalPages the
\* marketplace can report, 0 and a totalPages that falls below the current
\* page included; it never requests a page index greater than the
\* totalPages last reported.
C28_NoPageBeyondTotal ==
  \A i \in 2..Len(sp_log) : sp_log[i].page <= sp_log[i - 1].totalPages

(***************************************************************************)
(* deleteConfirmedCoupangProduct (part_003:230-301) request by request:    *)
(* the browser part, then getProductListPaging, stopSaleBySellerProductId  *)
(* (part_005:47-95) and deleteProducts (part_005:114-176).                 *)
(***************************************************************************)

\* the p-th matched product: an element of the product-list response that
\* findMatchingProducts kept (provider lines 87-96); it carries the
\* sellerProductId of the list API and no vendorInventoryId (0: undefined)
MatchedProduct(p) == [sellerProductId |-> p, vendorInventoryId |-> 0]

\* const productId of both loops, part_005:66-69 and 134-137: the
\* sellerProductId for JobType.SOLDOUT, the vendorInventoryId otherwise
ProductId(jobType, product) ==
  IF jobType = "SOLDOUT" THEN product.sellerProductId
                         ELSE product.vendorInventoryId

\* an entry of dc_log: a releaseContext, the timeout of the row set, or an
\* API request for a matched product (and one of its items); id is the
\* product id in the path of a detail lookup or delete, called with
\* CronType.CONFORM (part_003:284-289)
Event(op, product, item) ==
  [op |-> op, product |-> product, item |-> item,
   id |-> IF op \in {"detail", "delete"}
            THEN ProductId("CONFORM", MatchedProduct(product)) ELSE 0]

\* the number of entries of dc_log with operation op
Issued(op) == Cardinality({i \in 1..Len(dc_log) : dc_log[i].op = op})

\* the putStopSellingItem calls of stopSaleBySellerProductId in the order of
\* its loops (part_005:77-92): product by product, item by item
RECURSIVE StopList(_)
StopList(p) ==
  IF p > Len(dc_items) THEN <<>>
  ELSE [i \in 1..dc_items[p] |-> Event("stop", p, i)] \o StopList(p + 1)

\* the catch block of lines 296-300: log, releaseContext, return undefined
PurgeCaught(log) ==
  /\ dc_log' = Append(log, Event("release", 0, 0))
  /\ dc_ret' = "undefined"
  /\ dc_pc' = "returned"

\* return { matchedProducts }, line 295
PurgeReturns ==
  /\ dc_ret' = "object"
  /\ dc_pc' = "returned"

InitPurge ==
  /\ dc_pc = "login"
  /\ dc_items = <<>>
  /\ dc_log = <<>>
  /\ dc_ret = "none"
  /\ Parked("purge")

\* loginToCoupangSite and navigateToNonConformingProductsPage, lines 241-247
openNonConformingPage ==
  /\ dc_pc \in {"login", "navigate"}
  /\ \E ok \in BOOLEAN :
       IF ok THEN /\ dc_pc' = IF dc_pc = "login" THEN "navigate" ELSE "extract"
                  /\ UNCHANGED <<dc_log, dc_ret>>
             ELSE PurgeCaught(dc_log)
  /\ UNCHANGED dc_items
  /\ Keep("purge")

\* Mutant: the inner catch logs and the function goes on to release the
\* context and fetch the product list.
AfterTimeout_GoesOn == "release"

\* the inner catch of lines 257-262 ends with return undefined
AfterTimeout == "returned"

\* extractNonConformingProductCodes, provider lines 46-73, in the inner try
\* of lines 251-262: when tr.inventory-line does not appear within 6000 ms
\* the provider throws and the inner catch releases the context
extractNonConformingProductCodes ==
  /\ dc_pc = "extract"
  /\ \E appeared \in BOOLEAN :
       IF appeared
         THEN dc_pc' = "release" /\ UNCHANGED <<dc_log, dc_ret>>
         ELSE /\ dc_log' = dc_log \o <<Event("timeout", 0, 0), Event("release", 0, 0)>>
              /\ dc_pc' = AfterTimeout
              /\ dc_ret' = IF AfterTimeout = "returned" THEN "undefined" ELSE dc_ret
  /\ UNCHANGED dc_items
  /\ Keep("purge")

\* releaseContext before the API requests, line 265
ReleaseBeforeList(log) == Append(log, Event("release", 0, 0))

\* lines 265-295 up to the first getProductDetail: release the context,
\* getProductListPaging, findMatchingProducts; with no match the function
\* returns the empty matched set
getProductList ==
  /\ dc_pc = "release"
  /\ LET log == Append(ReleaseBeforeList(dc_log), Event("list", 0, 0)) IN
       \/ /\ PurgeCaught(log)
          /\ UNCHANGED dc_items
       \/ \E n \in 0..MaxProducts :
            \E items \in [1..n -> 0..MaxItems] :
              /\ dc_items' = items
              /\ dc_log' = log
              /\ IF n = 0 THEN PurgeReturns
                          ELSE dc_pc' = "detail" /\ UNCHANGED dc_ret
  /\ Keep("purge")

\* Mutant: the products are deleted without stopping the sale of their items.
AfterDetails_DeletesFirst == "delete"

\* the loop that follows the lookups: the stop-sale loop, when a product has
\* an item
AfterDetails == IF StopList(1) = <<>> THEN "delete" ELSE "stop"

\* the first loop of stopSaleBySellerProductId, part_005:58-75: one
\* getProductDetail per matched product, awaited outside any try
getProductDetail ==
  /\ dc_pc = "detail"
  /\ LET p == Issued("detail") + 1
         log == Append(dc_log, Event("detail", p, 0)) IN
       \/ PurgeCaught(log)
       \/ /\ dc_log' = log
          /\ dc_pc' = IF p < Len(dc_items) THEN "detail" ELSE AfterDetails
          /\ UNCHANGED dc_ret
  /\ UNCHANGED dc_items
  /\ Keep("purge")

\* the second loop, part_005:77-92: putStopSellingItem for the next item;
\* its failure is swallowed (part_007:222-227)
stopSelling ==
  /\ dc_pc = "stop"
  /\ LET k == Issued("stop") + 1 IN
       /\ dc_log' = Append(dc_log, StopList(1)[k])
       /\ dc_pc' = IF k < Len(StopList(1)) THEN "stop" ELSE "delete"
  /\ UNCHANGED <<dc_items, dc_ret>>
  /\ Keep("purge")

\* the loop of deleteProducts, part_005:126-161: deleteProduct for the next
\* product, its failure caught; after the last one line 295 returns
deleteMatched ==
  /\ dc_pc = "delete"
  /\ LET p == Issued("delete") + 1 IN
       /\ dc_log' = Append(dc_log, Event("delete", p, 0))
       /\ IF p < Len(dc_items) THEN dc_pc' = "delete" /\ UNCHANGED dc_ret
                               ELSE PurgeReturns
  /\ UNCHANGED dc_items
  /\ Keep("purge")

NextPurge ==
  \/ openNonConformingPage
  \/ extractNonConformingProductCodes
  \/ getProductList
  \/ getProductDetail
  \/ stopSelling
  \/ deleteMatched

SpecPurge == InitPurge /\ [][NextPurge]_vars

\* the operations that are requests to the marketplace API
ApiOps == {"list", "detail", "stop", "delete"}

\* entry i of dc_log is preceded by the entry e
Before(i, e) == \E k \in 1..(i - 1) : dc_log[k] = e

\* C29: the browser session is released before the first API request, and
\* every matched product is deleted only after a stop-sale request was
\* issued for each of its items; no delete precedes a stop-sale of the same
\* product.
C29_ReleaseThenStopThenDelete ==
  \A i \in 1..Len(dc_log) :
    /\ dc_log[i].op \in ApiOps => Before(i, Event("release", 0, 0))
    /\ dc_log[i].op = "delete" =>
         \A item \in 1..dc_items[dc_log[i].product] :
           Before(i, Event("stop", dc_log[i].product, item))
    /\ dc_log[i].op = "stop" => ~Before(i, Event("delete", dc_log[i].product, 0))

\* two matched products, one of them with two items, have been deleted
C29_Witness ==
  /\ Len(dc_items) = 2
  /\ dc_items[1] = 2
  /\ dc_items[2] = 1
  /\ Issued("delete") = 2
  /\ dc_pc = "returned"

\* C35: in the non-conforming purge, the product id used for the detail
\* lookup and the delete of each matched product is that product's
\* sellerProductId as returned by the product-list API, so every matched
\* product gets a delete addressed to its own id.
C35_OwnSellerProductId ==
  \A k \in 1..Len(dc_log) :
    dc_log[k].op \in {"detail", "delete"} =>
      dc_log[k].id = MatchedProduct(dc_log[k].product).sellerProductId

\* C31: stopSaleBySellerProductId and deleteProducts isolate failures to
\* the item: a failed API call for one input product (detail lookup,
\* stop-sale, delete) does not prevent the calls for the remaining products
\* (here: every matched product gets its detail lookup), and the value
\* returned has a status for every input product.
C31_FailuresIsolated ==
  dc_pc = "returned" => Issued("detail") = Len(dc_items)

\* C30: when the non-conforming row set never appears within the wait, the
\* workflow issues no product-list fetch, no stop-sale and no delete,
\* releases the session, and returns without raising.
C30_NoRowsNoRequests ==
  Issued("timeout") > 0 =>
    /\ \A op \in ApiOps : Issued(op) = 0
    /\ Issued("release") = 1
    /\ dc_pc = "returned"
    /\ dc_ret = "undefined"

\* the wait for the row set timed out and the workflow has returned
C30_Witness ==
  /\ Issued("timeout") = 1
  /\ dc_pc = "returned"


\* ---------------------------------------------------------------------
\* CoupangService with the data of its loops: the results of
\* uploadInvoices, the worklist, report and notification of
\* coupangProductsPriceControl, the notification of deleteProducts (part_005)
\* ---------------------------------------------------------------------

Operations == {"uploadInvoices", "coupangProductsPriceControl", "deleteProducts"}

\* rows of the update-item table: the saved item and its cronId
\* (coupang.repository.ts:19-26)
UpdateItems ==
  {[cronId |-> c, vendorItemId |-> v, newPrice |-> 100 * v] :
     c \in JobIds, v \in {1, 2}}

\* the tables of at most MaxStored rows
Stores == UNION {[1..k -> UpdateItems] : k \in 0..MaxStored}

\* error.message of a caught error; it may be empty
ErrorMessages == {"", "Error: FAIL"}

\* one signing call, API request or file write of the running invocation
Request(kind, item, id, price, ok) ==
  [run |-> sv_run, kind |-> kind, item |-> item, id |-> id, price |-> price,
   ok |-> ok]

\* the entries of sv_log of one kind written by invocation r
Requests(kind, r) ==
  SelectSeq(sv_log, LAMBDA e : e.kind = kind /\ e.run = r)

\* the messages emitted by invocation r
Emitted(r) == SelectSeq(sv_emits, LAMBDA e : e.run = r)

InitService ==
  /\ sv_op \in Operations
  /\ sv_jobId \in JobIds
  /\ sv_store \in IF sv_op = "coupangProductsPriceControl" THEN Stores
                                                            ELSE {<<>>}
  /\ sv_work \in IF sv_op = "coupangProductsPriceControl" THEN {<<>>}
                 ELSE {[k \in 1..n |-> k] : n \in 0..MaxInputs}
  /\ sv_i = 1
  /\ sv_pc = "start"
  /\ sv_run = 1
  /\ sv_log = <<>>
  /\ sv_success = 0
  /\ sv_failed = 0
  /\ sv_results = <<>>
  /\ sv_timer = "none"
  /\ sv_emits = <<>>
  /\ Parked("service")

\* the status is assigned before the call is awaited
InvoiceResult_StatusFirst(invoice, raised, message) ==
  [orderId |-> invoice,
   status |-> "success",
   error |-> IF raised THEN (IF message = "" THEN "unknown" ELSE message)
                       ELSE ""]

\* the result of one invoice, part_005:385-411: built as 'failed' with an
\* empty error, set to 'success' after uploadInvoice resolved, and given
\* error.message || 'unknown error' in the catch block
InvoiceResult(invoice, raised, message) ==
  [orderId |-> invoice,
   status |-> IF raised THEN "failed" ELSE "success",
   error |-> IF raised THEN (IF message = "" THEN "unknown" ELSE message)
                       ELSE ""]

\* uploadInvoices, part_005:377-418: for the next invoice uploadInvoice
\* signs and posts (part_007:338-378), the result is pushed whatever the
\* outcome; after the last invoice the results are returned
uploadInvoicesResults ==
  /\ sv_op = "uploadInvoices"
  /\ sv_pc \in {"start", "loop"}
  /\ IF sv_i <= Len(sv_work)
     THEN \E raised \in BOOLEAN, message \in ErrorMessages :
            /\ sv_log' = sv_log \o
                 << Request("sign", sv_i, sv_work[sv_i], 0, TRUE),
                    Request("post", sv_i, sv_work[sv_i], 0, ~raised) >>
            /\ sv_results' =
                 Append(sv_results, InvoiceResult(sv_work[sv_i], raised, message))
            /\ sv_i' = sv_i + 1
            /\ sv_pc' = "loop"
     ELSE /\ sv_pc' = "returned"
          /\ UNCHANGED <<sv_log, sv_results, sv_i>>
  /\ UNCHANGED <<sv_op, sv_store, sv_jobId, sv_work, sv_run, sv_success,
                 sv_failed, sv_timer, sv_emits>>
  /\ Keep("service")

\* the rows are found without the where clause
getUpdatedItems_All(cronId) == sv_store

\* CoupangRepository.getUpdatedItems, coupang.repository.ts:40-44:
\* find({ where: { cronId } })
getUpdatedItems(cronId) == SelectSeq(sv_store, LAMBDA row : row.cronId = cronId)

\* the loop is entered whatever the length of the worklist
AfterLoad_GoesOn(updatedItems) == "loop"

\* if (updatedItems.length === 0) return, part_005:203-206
AfterLoad(updatedItems) == IF Len(updatedItems) = 0 THEN "returned" ELSE "loop"

\* the counts are sent without the failures
PriceReport_SuccessOnly == [successCount |-> sv_success, filedCount |-> 0]

\* data of the sendUpdateEmail message, part_005:273-277
PriceReport == [successCount |-> sv_success, filedCount |-> sv_failed]

\* one message emitted to mail-queue by the running invocation
Notification(pattern, data, ok) ==
  [run |-> sv_run, pattern |-> pattern, data |-> data, ok |-> ok]

\* coupangProductsPriceControl, part_005:195-208: the worklist is read from
\* the table (the read may reject) and an empty one ends the call
loadUpdatedItems ==
  /\ sv_op = "coupangProductsPriceControl"
  /\ sv_pc = "start"
  /\ \/ /\ sv_pc' = "thrown"
        /\ UNCHANGED sv_work
     \/ LET updatedItems == getUpdatedItems(sv_jobId) IN
          /\ sv_work' = updatedItems
          /\ sv_pc' = AfterLoad(updatedItems)
  /\ UNCHANGED <<sv_op, sv_store, sv_jobId, sv_i, sv_run, sv_log, sv_success,
                 sv_failed, sv_results, sv_timer, sv_emits>>
  /\ Keep("service")

\* coupangProductsPriceControl, part_005:210-286: sign and put the price of
\* the next item, counting the outcome; after the last item the report is
\* handed to setImmediate and the call returns
updatePrices ==
  /\ sv_op = "coupangProductsPriceControl"
  /\ sv_pc = "loop"
  /\ IF sv_i <= Len(sv_work)
     THEN \E ok \in BOOLEAN :
            LET item == sv_work[sv_i] IN
              /\ sv_log' = sv_log \o
                   << Request("sign", sv_i, item.vendorItemId, item.newPrice, TRUE),
                      Request("put", sv_i, item.vendorItemId, item.newPrice, ok) >>
              /\ sv_success' = IF ok THEN sv_success + 1 ELSE sv_success
              /\ sv_failed' = IF ok THEN sv_failed ELSE sv_failed + 1
              /\ sv_i' = sv_i + 1
              /\ UNCHANGED <<sv_pc, sv_timer>>
     ELSE /\ sv_timer' = "pending"
          /\ sv_pc' = "returned"
          /\ UNCHANGED <<sv_log, sv_success, sv_failed, sv_i>>
  /\ UNCHANGED <<sv_op, sv_store, sv_jobId, sv_work, sv_run, sv_results,
                 sv_emits>>
  /\ Keep("service")

\* the setImmediate callback, part_005:249-286: the report file is written
\* and then the message emitted; whatever fails is caught and logged
sendUpdateReport ==
  /\ sv_timer = "pending"
  /\ \E written \in BOOLEAN, emitted \in BOOLEAN :
       /\ sv_log' = Append(sv_log, Request("file", 0, 0, 0, written))
       /\ sv_emits' = IF written
                        THEN Append(sv_emits,
                               Notification("sendUpdateEmail", PriceReport, emitted))
                        ELSE sv_emits
  /\ sv_timer' = "ran"
  /\ UNCHANGED <<sv_op, sv_store, sv_jobId, sv_work, sv_i, sv_pc, sv_run,
                 sv_success, sv_failed, sv_results>>
  /\ Keep("service")

\* coupangProductsPriceControl is called again with the same job id
priceControlAgain ==
  /\ sv_op = "coupangProductsPriceControl"
  /\ sv_pc \in {"returned", "thrown"}
  /\ sv_timer # "pending"
  /\ sv_run < MaxRuns
  /\ sv_run' = sv_run + 1
  /\ sv_pc' = "start"
  /\ sv_work' = <<>>
  /\ sv_i' = 1
  /\ sv_success' = 0
  /\ sv_failed' = 0
  /\ sv_timer' = "none"
  /\ UNCHANGED <<sv_op, sv_store, sv_jobId, sv_log, sv_results, sv_emits>>
  /\ Keep("service")

\* the product is listed whatever the outcome of its delete
Deleted_Always(deletedProducts, product, ok) ==
  Append(deletedProducts, [sellerProductId |-> product])

\* deletedProducts.push inside the try, part_005:145-150
Deleted(deletedProducts, product, ok) ==
  IF ok THEN Append(deletedProducts, [sellerProductId |-> product])
        ELSE deletedProducts

\* deleteProducts, part_005:114-176: nothing is done for an empty list;
\* deleteProduct for the next product, its failure caught; after the last
\* one the deleted products, if any, are emitted inside a try of its own
deleteProductsNotify ==
  /\ sv_op = "deleteProducts"
  /\ sv_pc \in {"start", "loop"}
  /\ IF Len(sv_work) = 0
     THEN /\ sv_pc' = "returned"
          /\ UNCHANGED <<sv_log, sv_results, sv_i, sv_emits>>
     ELSE IF sv_i <= Len(sv_work)
     THEN \E ok \in BOOLEAN :
            /\ sv_log' = sv_log \o
                 << Request("sign", sv_i, sv_work[sv_i], 0, TRUE),
                    Request("delete", sv_i, sv_work[sv_i], 0, ok) >>
            /\ sv_results' = Deleted(sv_results, sv_work[sv_i], ok)
            /\ sv_i' = sv_i + 1
            /\ sv_pc' = "loop"
            /\ UNCHANGED sv_emits
     ELSE \E emitted \in BOOLEAN :
            /\ sv_emits' = IF Len(sv_results) > 0
                             THEN Append(sv_emits,
                                    Notification("sendBatchDeletionEmail",
                                                 sv_results, emitted))
                             ELSE sv_emits
            /\ sv_pc' = "returned"
            /\ UNCHANGED <<sv_log, sv_results, sv_i>>
  /\ UNCHANGED <<sv_op, sv_store, sv_jobId, sv_work, sv_run, sv_success,
                 sv_failed, sv_timer>>
  /\ Keep("service")

NextService ==
  \/ uploadInvoicesResults
  \/ loadUpdatedItems
  \/ updatePrices
  \/ sendUpdateReport
  \/ priceControlAgain
  \/ deleteProductsNotify

SpecService == InitService /\ [][NextService]_vars

\* C32: uploadInvoices over n invoices returns exactly n results in input
\* order; result i is 'success' exactly when the submit call for invoice i
\* did not raise, and 'failed' with a non-empty error otherwise; a failure
\* never stops the following invoices from being submitted.
C32_OneResultPerInvoice ==
  (sv_op = "uploadInvoices" /\ sv_pc = "returned") =>
    /\ Len(sv_results) = Len(sv_work)
    /\ Len(Requests("post", 1)) = Len(sv_work)
    /\ \A k \in 1..Len(sv_work) :
         /\ sv_results[k].orderId = sv_work[k]
         /\ Requests("post", 1)[k].id = sv_work[k]
         /\ sv_results[k].status = "success" <=> Requests("post", 1)[k].ok
         /\ sv_results[k].status # "success" =>
              sv_results[k].status = "failed" /\ sv_results[k].error # ""

\* C32 witness: the first of two invoices failed with an empty message and
\* the second was submitted and succeeded
C32_Witness ==
  /\ sv_op = "uploadInvoices"
  /\ sv_pc = "returned"
  /\ Len(sv_work) = 2
  /\ ~Requests("post", 1)[1].ok
  /\ sv_results[1].error = "unknown"
  /\ sv_results[2].status = "success"

\* C33: the price-control completion notification is emitted at most once
\* per invocation, only after a price update was attempted for every
\* worklist item, and carries success and failure counts whose sum is the
\* worklist length; the invocation has returned normally whether the report
\* file and the emit succeed or fail.
C33_OneReportAfterLoop ==
  sv_op = "coupangProductsPriceControl" =>
    /\ \A r \in 1..sv_run : Len(Emitted(r)) <= 1
    /\ \A k \in 1..Len(sv_emits) :
         LET e == sv_emits[k]
             puts == Requests("put", e.run) IN
           /\ e.pattern = "sendUpdateEmail"
           /\ e.data.successCount + e.data.filedCount = Len(puts)
           /\ e.data.filedCount = Len(SelectSeq(puts, LAMBDA p : ~p.ok))
           /\ e.run = sv_run => Len(puts) = Len(sv_work)
    /\ sv_timer # "none" => sv_pc = "returned"

\* C33 witness: two prices were put, one of them failed, the report was
\* written and its emit failed
C33_Witness ==
  /\ sv_op = "coupangProductsPriceControl"
  /\ sv_run = 1
  /\ sv_timer = "ran"
  /\ Len(sv_work) = 2
  /\ Len(sv_emits) = 1
  /\ sv_emits[1].data = [successCount |-> 1, filedCount |-> 1]
  /\ ~sv_emits[1].ok

\* C34: when the table holds no row for the job id,
\* coupangProductsPriceControl issues no signing call and no price-update
\* request, writes no report file and emits no notification.
C34_EmptyWorklistDoesNothing ==
  (sv_op = "coupangProductsPriceControl"
     /\ Len(getUpdatedItems(sv_jobId)) = 0) =>
    /\ sv_log = <<>>
    /\ sv_emits = <<>>
    /\ sv_timer = "none"
    /\ sv_pc \in {"start", "returned", "thrown"}

\* C34 witness: the table holds rows of another job only, and the call has
\* returned
C34_Witness ==
  /\ sv_op = "coupangProductsPriceControl"
  /\ Len(sv_store) = MaxStored
  /\ Len(getUpdatedItems(sv_jobId)) = 0
  /\ sv_pc = "returned"

\* the rows saved under job id J, in table order
StoredUnder(J) == SelectSeq(sv_store, LAMBDA row : row.cronId = J)

\* C37: coupangProductsPriceControl for job id J issues price-update
\* requests only for the items stored under J, exactly one request per
\* stored item, with that item's vendorItemId and newPrice; it leaves the
\* stored items as they are, so a second invocation for J issues the same
\* requests again.
C37_RequestsAreTheStoredItems ==
  sv_op = "coupangProductsPriceControl" =>
    \A r \in 1..sv_run :
      LET puts == Requests("put", r)
          stored == StoredUnder(sv_jobId) IN
        /\ Len(puts) <= Len(stored)
        /\ \A k \in 1..Len(puts) :
             /\ puts[k].id = stored[k].vendorItemId
             /\ puts[k].price = stored[k].newPrice
        /\ (Requests("file", r) # <<>> \/ (r = sv_run /\ sv_pc = "returned")) =>
             Len(puts) = Len(stored)

\* C37 witness: the table holds a row of J and a row of another job, and
\* both of two invocations have put the one price of J
C37_Witness ==
  /\ sv_op = "coupangProductsPriceControl"
  /\ sv_run = 2
  /\ sv_pc = "returned"
  /\ Len(sv_store) = 2
  /\ Len(StoredUnder(sv_jobId)) = 1
  /\ Len(Requests("put", 1)) = 1
  /\ Len(Requests("put", 2)) = 1

\* the products whose delete request succeeded, in the order of the requests
Succeeded ==
  LET done == SelectSeq(Requests("delete", 1), LAMBDA e : e.ok) IN
    [k \in 1..Len(done) |-> [sellerProductId |-> done[k].id]]

\* C40: deleteProducts emits the batch-deletion notification at most once
\* per invocation, exactly when at least one delete succeeded, listing the
\* products whose delete succeeded in processing order; a failure of the
\* emit does not raise to the caller.
C40_OneDeletionNotice ==
  sv_op = "deleteProducts" =>
    /\ Len(sv_emits) <= 1
    /\ sv_pc # "thrown"
    /\ sv_pc # "returned" => sv_emits = <<>>
    /\ sv_pc = "returned" =>
         /\ Len(Requests("delete", 1)) = Len(sv_work)
         /\ Len(sv_emits) = 1 <=> Len(Succeeded) > 0
         /\ \A k \in 1..Len(sv_emits) :
              /\ sv_emits[k].pattern = "sendBatchDeletionEmail"
              /\ sv_emits[k].data = Succeeded

\* C40 witness: the first of two deletes failed, the second succeeded, and
\* the emit of the notification failed
C40_Witness ==
  /\ sv_op = "deleteProducts"
  /\ sv_pc = "returned"
  /\ Len(sv_work) = 2
  /\ ~Requests("delete", 1)[1].ok
  /\ Len(sv_emits) = 1
  /\ sv_emits[1].data = << [sellerProductId |-> 2] >>
  /\ ~sv_emits[1].ok

====
